---------------------------- MODULE Spec2Model ----------------------------
(***************************************************************************)
(* Model of the ui5.userInteraction / ui5.control layer of                 *)
(* wdio-qmate-service.                                                     *)
(*                                                                         *)
(* Every async function of the layer is a frame on the call stack of the   *)
(* task that runs it.  The pc of the top frame names the await the task is *)
(* suspended at: a driver round trip (getDisplayed, isClickable, click,    *)
(* ...), a timer, or the return of a callee.  One action is the completion *)
(* of that await together with the synchronous code that follows it up to  *)
(* the next await.  The outcome of a driver round trip is chosen by the    *)
(* environment.                                                            *)
(***************************************************************************)
EXTENDS Naturals, Integers, Sequences, FiniteSets, TLC

\* ------------------------------------------------------------------ bounds
MaxCalls == 2        \* operations the test script issues in one session
MaxTimeout == 2      \* longest timeout, in polls of browser.waitUntil
MaxRetries == 1      \* largest `retries` a caller passes to an ...AndRetry
MaxEnvLen == 3       \* characters of the value of QMATE_CUSTOM_TIMEOUT
MaxValues == 2       \* values one selectMultiComboBox call is given
MaxAttempts == 5     \* attempts of one retry call the model follows

\* --------------------------------------------------------------- constants
Main == 0            \* the task of the test script

\* ------------------------------------------------------------------ values
Metadata == {"sap.m.Input", "sap.m.TextArea"}
Selectors == [metadata : Metadata, role : {"self"}]
NoSel == [metadata |-> "none", role |-> "none"]
Indexes == 0 .. 1
Timeouts == 1 .. MaxTimeout
\* A value a caller passes: its JavaScript type and its text.
Values == {[type |-> "string", text |-> "10"], [type |-> "number", text |-> "10"],
           [type |-> "boolean", text |-> "true"], [type |-> "undefined", text |-> ""]}

\* An element handle: the element (selector, index) it refers to and the
\* serial number of the call or attempt whose resolution produced it.
NoElem == [sel |-> NoSel, index |-> 0, born |-> 0]
HandleCached(selector, index, serial) == [sel |-> selector, index |-> index, born |-> 1]
Handle(selector, index, serial) == [sel |-> selector, index |-> index, born |-> serial]

\* An error: its kind, how often it went through ErrorHandler.logException,
\* and the serial number of the call or attempt that raised it.
NoErr == [kind |-> "none", logged |-> 0, born |-> 0]
Err(kind, serial) == [kind |-> kind, logged |-> 0, born |-> serial]

VARIABLES
    stack,      \* stack[t]: the frames of task t, innermost last
    exc,        \* exc[t]: the error propagating in task t, or the error its last call failed with
    ret,        \* ret[t]: the value the last callee of task t returned
    callNo,     \* callNo[t]: serial number of the call or attempt task t works for
    nCalls,     \* operations the test script has issued
    hist        \* what the running (or last) call of the test script, and its running attempt, did

vars == <<stack, exc, ret, callNo, nCalls, hist>>

Children == {1, 2}   \* the two clicks selectFromTab hands to Promise.any
Floaters == 3 .. 2 + MaxCalls   \* a scrollToElement that Control.focus started and left behind
Tasks == {Main} \cup Children \cup Floaters

\* ------------------------------------------------------------ stack helpers
Top(t) == stack[t][Len(stack[t])]
Pop(s) == SubSeq(s, 1, Len(s) - 1)
SetTop(s, f) == [s EXCEPT ![Len(s)] = f]
Running(t) == stack[t] # <<>>
At(t, fn, pc) == Running(t) /\ exc[t] = NoErr /\ Top(t).fn = fn /\ Top(t).pc = pc
Caught(t, fn) == Running(t) /\ exc[t] # NoErr /\ Top(t).fn = fn

NoHist ==
    [op |-> "none", prims |-> 0, logs |-> 0, ready |-> FALSE, primFailed |-> FALSE,
     retries |-> 0, interval |-> 0, attempts |-> 0, fails |-> 0, lastOk |-> FALSE,
     afterOk |-> FALSE, nWaits |-> 0, waits |-> {}, lastErr |-> NoErr,
     clicked |-> FALSE, verified |-> "none", trace |-> <<>>,
     prevOp |-> "none", prev |-> <<>>, prevOk |-> FALSE, values |-> <<>>,
     env |-> [set |-> FALSE, text |-> <<>>],
     timeout |-> [type |-> "undefined", nan |-> FALSE, neg |-> FALSE, mant |-> 0, scale |-> 0]]

\* ------------------------------------------------------------ control flow
\* The task stays in its top frame, which becomes f (the next await).
Goto(t, f) ==
    /\ stack' = [stack EXCEPT ![t] = SetTop(@, f)]
    /\ UNCHANGED <<exc, ret>>

\* The top frame's function throws e (its promise rejects).
Throw(t, e) ==
    /\ stack' = [stack EXCEPT ![t] = Pop(@)]
    /\ exc' = [exc EXCEPT ![t] = e]
    /\ UNCHANGED ret

\* The top frame's function returns (its promise fulfils).
Return(t) ==
    /\ stack' = [stack EXCEPT ![t] = Pop(@)]
    /\ UNCHANGED <<exc, ret>>

\* The top frame's function returns the value v.
ReturnValue(t, v) ==
    /\ stack' = [stack EXCEPT ![t] = Pop(@)]
    /\ ret' = [ret EXCEPT ![t] = v]
    /\ UNCHANGED exc

\* `await g(...)`: the top frame becomes f, waiting for the callee's frame g.
Call(t, f, g) ==
    /\ stack' = [stack EXCEPT ![t] = Append(SetTop(@, f), g)]
    /\ UNCHANGED <<exc, ret>>

\* --------------------------------------------------- ErrorHandler.logException
\* Records the error and re-raises it: the result is the error that propagates.
logException(error) == [error EXCEPT !.logged = @ + 1]

\* history: task t called logException n times, a primitive action failed
Note(t, n, primFailed) ==
    hist' = IF t = Main
            THEN [hist EXCEPT !.logs = @ + n, !.primFailed = @ \/ primFailed]
            ELSE hist

\* history: the caller's operation did `ev` (a driver call, or a call of another
\* operation of the layer) for the selector `sel` with the argument `arg`, and
\* got the answer `ans`
Event(ev, sel, arg, ans) == [ev |-> ev, sel |-> sel, arg |-> arg, ans |-> ans]

Did(t, ev, sel, arg, ans) ==
    hist' = IF t = Main
            THEN [hist EXCEPT !.trace = Append(@, Event(ev, sel, arg, ans))]
            ELSE hist

BoolText(b) == IF b THEN "true" ELSE "false"
OkText(ok) == IF ok THEN "ok" ELSE "error"

\* the ids of the DOM elements a selector can resolve to
ElementIds == {"__xmlview0--a", "__xmlview0--b"}

\* ------------------------------------------------- functions that only await
\* A function whose body is `await callee(...)` and nothing after it.
Awaiter(name) == [fn |-> "tail", pc |-> "await", name |-> name]

RetryWrappers ==
    {"clickAndRetry", "fillAndRetry", "clearAndRetry", "clearAndFillAndRetry",
     "clearAndFillSmartFieldInputAndRetry", "clickSelectArrowAndRetry",
     "clickTab", "selectFromTab"}

\* `await callee(...)` outside any try: what the callee threw leaves the function.
AwaitedSwallowed(name, error) == IF name \in RetryWrappers THEN NoErr ELSE error
Awaited(name, error) == error

TailDone(t) ==
    /\ Running(t)
    /\ Top(t).fn = "tail"
    /\ stack' = [stack EXCEPT ![t] = Pop(@)]
    /\ exc' = [exc EXCEPT ![t] = Awaited(Top(t).name, @)]
    /\ Did(t, "return", NoSel, Top(t).name, OkText(exc'[t] = NoErr))
    /\ UNCHANGED <<ret, callNo, nCalls>>

\* An error passes through a function that awaits its callee outside any try.
Catching == {"retry", "tail", "check"}

Unwind(t) ==
    /\ Running(t)
    /\ exc[t] # NoErr
    /\ Top(t).fn \notin Catching
    /\ stack' = [stack EXCEPT ![t] = Pop(@)]
    /\ UNCHANGED <<exc, ret, callNo, nCalls, hist>>

\* ------------------------------------------------------------------- click
\* The frame of click / doubleClick / rightClick up to its first await:
\* `let elem = null`, then waitUntil runs its predicate, which calls getDisplayed.
ClickFrame(kind, selector, index, timeout) ==
    [fn |-> "click", kind |-> kind, pc |-> "getDisplayed", sel |-> selector,
     index |-> index, timeout |-> timeout, elem |-> NoElem, polls |-> 0,
     seen |-> NoElem, acted |-> <<>>]

click(selector, index, timeout) == ClickFrame("click", selector, index, timeout)
doubleClick(selector, index, timeout) == ClickFrame("doubleClick", selector, index, timeout)
rightClick(selector, index, timeout) == ClickFrame("rightClick", selector, index, timeout)

\* waitUntil after a poll whose predicate returned false or threw: poll again
\* while the timeout has not run out, else fail with the timeout error.
WaitUntilExpired(polls, timeout) == polls >= timeout

\* The predicate of waitUntil in click: truthy iff an element was resolved and
\* it reports clickable.
ClickPredicateAnyElem(elem, clickable) == elem # NoElem
ClickPredicate(elem, clickable) == elem # NoElem /\ clickable

\* The catch block of click: the error of the primitive goes to logException.
ClickCatchSwallow(error) == NoErr
ClickCatch(error) == logException(error)

PollFailedProceed(t, f) ==
    IF WaitUntilExpired(f.polls + 1, f.timeout)
    THEN Goto(t, [f EXCEPT !.pc = "prim"])
    ELSE Goto(t, [f EXCEPT !.polls = @ + 1, !.pc = "getDisplayed"])

PollFailed(t, f) ==
    IF WaitUntilExpired(f.polls + 1, f.timeout)
    THEN Throw(t, Err("timeout", callNo[t]))
    ELSE Goto(t, [f EXCEPT !.polls = @ + 1, !.pc = "getDisplayed"])

\* elem = await ui5.element.getDisplayed(selector, index, timeout); if (!elem) return false;
ClickGetDisplayed(t) ==
    /\ At(t, "click", "getDisplayed")
    /\ LET f == Top(t) IN
       \E out \in {"found", "null", "throw"} :
          LET h == Handle(f.sel, f.index, callNo[t])
              g == CASE out = "found" -> [f EXCEPT !.elem = h, !.seen = NoElem]
                     [] out = "null"  -> [f EXCEPT !.elem = NoElem, !.seen = NoElem]
                     [] OTHER         -> [f EXCEPT !.seen = NoElem]
          IN  IF out = "found"
              THEN Goto(t, [g EXCEPT !.pc = "isClickable"])
              ELSE PollFailed(t, g)
    /\ UNCHANGED <<callNo, nCalls, hist>>

\* return elem.isClickable(); and, when waitUntil resolves, the primitive is invoked.
ClickIsClickable(t) ==
    /\ At(t, "click", "isClickable")
    /\ LET f == Top(t) IN
       \E clickable \in BOOLEAN :
          IF ClickPredicate(f.elem, clickable)
          THEN /\ Goto(t, [f EXCEPT !.pc = "prim",
                                    !.seen = IF clickable THEN f.elem ELSE NoElem,
                                    !.acted = Append(@, f.elem)])
               /\ hist' = IF t = Main
                          THEN [hist EXCEPT !.prims = @ + 1,
                                            !.ready = clickable /\ f.elem # NoElem]
                          ELSE hist
          ELSE /\ PollFailed(t, f)
               /\ hist' = hist
    /\ UNCHANGED <<callNo, nCalls>>

\* await elem.click() / elem.doubleClick() / elem.click({button: "right"}) in try/catch
ClickPrim(t) ==
    /\ At(t, "click", "prim")
    /\ \E ok \in BOOLEAN :
          LET e == ClickCatch(Err("primitive", callNo[t])) IN
          IF ok
          THEN Return(t) /\ hist' = hist
          ELSE /\ IF e = NoErr THEN Return(t) ELSE Throw(t, e)
               /\ Note(t, e.logged, TRUE)
    /\ UNCHANGED <<callNo, nCalls>>

\* ---------------------------------------------------------- check, uncheck
check(selector, index, timeout) ==
    [fn |-> "check", kind |-> "check", pc |-> "getPropertyValue", sel |-> selector,
     index |-> index, timeout |-> timeout]

uncheck(selector, index, timeout) ==
    [fn |-> "check", kind |-> "uncheck", pc |-> "getPropertyValue", sel |-> selector,
     index |-> index, timeout |-> timeout]

\* check: if (!isSelected) click;  uncheck: if (isSelected) click
ShouldClickCopied(kind, isSelected) == ~isSelected
ShouldClickAlways(kind, isSelected) == TRUE
ShouldClick(kind, isSelected) == IF kind = "check" THEN ~isSelected ELSE isSelected

\* const isSelected = await ui5.element.getPropertyValue(selector, "selected", index, timeout);
\* then the click is awaited, or the function returns
CheckGetPropertyValue(t) ==
    /\ At(t, "check", "getPropertyValue")
    /\ LET f == Top(t) IN
       \/ /\ stack' = stack
          /\ exc' = [exc EXCEPT ![t] = Err("notfound", callNo[t])]
          /\ ret' = ret
          /\ Did(t, "getPropertyValue", f.sel, "selected", "error")
       \/ \E isSelected \in BOOLEAN :
             IF ShouldClick(f.kind, isSelected)
             THEN /\ Call(t, [f EXCEPT !.pc = "afterClick"], click(f.sel, f.index, f.timeout))
                  /\ hist' = IF t = Main
                             THEN [hist EXCEPT !.trace = @ \o
                                     <<Event("getPropertyValue", f.sel, "selected", BoolText(isSelected)),
                                       Event("click", f.sel, "", "")>>]
                             ELSE hist
             ELSE /\ Return(t)
                  /\ Did(t, "getPropertyValue", f.sel, "selected", BoolText(isSelected))
    /\ UNCHANGED <<callNo, nCalls>>

\* await this.click(...) returned
CheckAfterClick(t) ==
    /\ At(t, "check", "afterClick")
    /\ Return(t)
    /\ UNCHANGED <<callNo, nCalls, hist>>

\* catch (error) { this.ErrorHandler.logException(error); }
CheckCatch(t) ==
    /\ Caught(t, "check")
    /\ Throw(t, logException(exc[t]))
    /\ Note(t, 1, FALSE)
    /\ UNCHANGED <<callNo, nCalls>>

\* -------------------------------------------------------------------- fill
fill(selector, value, index, timeout) ==
    [fn |-> "fill", pc |-> "entry", sel |-> selector, value |-> value,
     index |-> index, timeout |-> timeout, id |-> "", elem |-> NoElem]

\* typeof value === "string" || typeof value === "number"
FillAccepts(value) == value.type \in {"string", "number"}

\* the inner tag fill looks up below the element's id
FillTagInput(selector) == "input"
FillTagNotInput(selector) == IF selector.metadata = "sap.m.Input" THEN "input" ELSE "textarea"
FillTag(selector) == IF selector.metadata = "sap.m.TextArea" THEN "textarea" ELSE "input"

\* "[id='" + id + "'] textarea" or "[id='" + id + "'] input"
FillCss(id, selector) == "[id='" \o id \o "'] " \o FillTag(selector)

\* the handle of an element looked up by css below the element (selector, index)
Inner(selector, part, index, serial) ==
    Handle([selector EXCEPT !.role = part], index, serial)

FillEntry(t) ==
    /\ At(t, "fill", "entry")
    /\ LET f == Top(t) IN
       IF FillAccepts(f.value)
       THEN /\ Goto(t, [f EXCEPT !.pc = "getId"])
            /\ Did(t, "typeof", f.sel, "value", f.value.type)
       ELSE /\ Throw(t, logException(Err("value", callNo[t])))
            /\ hist' = IF t = Main
                       THEN [hist EXCEPT !.logs = @ + 1,
                                         !.trace = Append(@, Event("typeof", f.sel, "value", f.value.type))]
                       ELSE hist
    /\ UNCHANGED <<callNo, nCalls>>

\* const id = await ui5.element.getId(selector, index, timeout);
FillGetId(t) ==
    /\ At(t, "fill", "getId")
    /\ \/ \E id \in ElementIds :
             /\ Goto(t, [Top(t) EXCEPT !.pc = "getByCss", !.id = id])
             /\ Did(t, "getId", Top(t).sel, "", id)
       \/ /\ Throw(t, Err("notfound", callNo[t]))
          /\ Did(t, "getId", Top(t).sel, "", "error")
    /\ UNCHANGED <<callNo, nCalls>>

\* elem = await nonUi5.element.getByCss("[id='" + id + "'] textarea" or "... input", 0, timeout);
FillGetByCss(t) ==
    /\ At(t, "fill", "getByCss")
    /\ LET f == Top(t) IN
       \E found \in BOOLEAN :
             /\ IF found
                THEN Goto(t, [f EXCEPT !.pc = "setValue",
                                       !.elem = Inner(f.sel, FillTag(f.sel), f.index, callNo[t])])
                ELSE Throw(t, Err("notfound", callNo[t]))
             /\ Did(t, "getByCss", f.sel, FillCss(f.id, f.sel), OkText(found))
    /\ UNCHANGED <<callNo, nCalls>>

\* await elem.setValue(value);
FillSetValue(t) ==
    /\ At(t, "fill", "setValue")
    /\ LET f == Top(t) IN
       \E ok \in BOOLEAN :
          /\ IF ok THEN Return(t) ELSE Throw(t, Err("primitive", callNo[t]))
          /\ hist' = IF t = Main
                     THEN [hist EXCEPT !.primFailed = @ \/ ~ok,
                                       !.trace = Append(@, Event("setValue", f.elem.sel, f.value.text, OkText(ok)))]
                     ELSE hist
    /\ UNCHANGED <<callNo, nCalls>>

\* -------------------------------------------------------- clickSelectArrow
clickSelectArrow(selector, index) ==
    [fn |-> "clickSelectArrow", pc |-> "getId", sel |-> selector, index |-> index,
     elem |-> NoElem]

\* const id = await ui5.element.getId(selector, index);
ClickSelectArrowGetId(t) ==
    /\ At(t, "clickSelectArrow", "getId")
    /\ \E found \in BOOLEAN :
          IF found
          THEN Goto(t, [Top(t) EXCEPT !.pc = "getByCss"])
          ELSE Throw(t, Err("notfound", callNo[t]))
    /\ UNCHANGED <<callNo, nCalls, hist>>

\* const arrow = await nonUi5.element.getByCss("[id='" + id + "-arrow']", 0, 3000);
ClickSelectArrowGetByCss(t) ==
    /\ At(t, "clickSelectArrow", "getByCss")
    /\ LET f == Top(t) IN
       \E found \in BOOLEAN :
          IF found
          THEN Goto(t, [f EXCEPT !.pc = "click",
                                 !.elem = Inner(f.sel, "arrow", f.index, callNo[t])])
          ELSE Throw(t, Err("notfound", callNo[t]))
    /\ UNCHANGED <<callNo, nCalls, hist>>

\* await arrow.click();
ClickSelectArrowClick(t) ==
    /\ At(t, "clickSelectArrow", "click")
    /\ \E ok \in BOOLEAN :
          IF ok
          THEN Return(t) /\ hist' = hist
          ELSE Throw(t, Err("primitive", callNo[t])) /\ Note(t, 0, TRUE)
    /\ UNCHANGED <<callNo, nCalls>>

\* -------------------------------------------------------- mouseOverElement
mouseOverElement(selector, index, timeout) ==
    [fn |-> "mouseOverElement", pc |-> "getDisplayed", sel |-> selector,
     index |-> index, timeout |-> timeout, elem |-> NoElem]

\* try { elem = await ui5.element.getDisplayed(...) } catch { return logException(new Error(), ...) }
MouseOverGetDisplayed(t) ==
    /\ At(t, "mouseOverElement", "getDisplayed")
    /\ LET f == Top(t) IN
       \E found \in BOOLEAN :
          IF found
          THEN /\ Goto(t, [f EXCEPT !.pc = "moveTo", !.elem = Handle(f.sel, f.index, callNo[t])])
               /\ hist' = hist
          ELSE /\ Throw(t, logException(Err("notfound", callNo[t])))
               /\ Note(t, 1, FALSE)
    /\ UNCHANGED <<callNo, nCalls>>

\* await elem.moveTo();
MouseOverMoveTo(t) ==
    /\ At(t, "mouseOverElement", "moveTo")
    /\ \E ok \in BOOLEAN :
          IF ok
          THEN Return(t) /\ hist' = hist
          ELSE Throw(t, Err("primitive", callNo[t])) /\ Note(t, 0, TRUE)
    /\ UNCHANGED <<callNo, nCalls>>

\* ---------------------------------------------------------------- selectAll
\* if (selector !== undefined) await this.click(...); then ctrl + a is pressed
selectAll(selector, index, timeout) ==
    IF selector # NoSel
    THEN <<[fn |-> "selectAll", pc |-> "pressKey"], click(selector, index, timeout)>>
    ELSE <<[fn |-> "selectAll", pc |-> "pressKey"]>>

\* await common.userInteraction.pressKey(["", "a"]);
SelectAllPressKey(t) ==
    /\ At(t, "selectAll", "pressKey")
    /\ \E ok \in BOOLEAN :
          IF ok
          THEN Return(t) /\ hist' = hist
          ELSE Throw(t, Err("primitive", callNo[t])) /\ Note(t, 0, TRUE)
    /\ UNCHANGED <<callNo, nCalls>>

\* ------------------------------------------------------- clear, _clearHelper
\* if (selector) { await click(...); id = await getId(...); elem = await getActiveElement() }
\* else { elem = await getActiveElement(); await elem.click(); id = await getAttribute(elem, "id") }
clearHelper(selector, index, timeout) ==
    IF selector # NoSel
    THEN <<[fn |-> "clearHelper", pc |-> "getId", sel |-> selector, index |-> index,
            timeout |-> timeout],
           click(selector, index, timeout)>>
    ELSE <<[fn |-> "clearHelper", pc |-> "getActiveElement", sel |-> selector,
            index |-> index, timeout |-> timeout]>>

clear(selector, index, timeout) ==
    <<Awaiter("clear")>> \o clearHelper(selector, index, timeout)

\* One driver round trip of _clearHelper that either yields or throws.
ClearHelperStep(t, pc, next, kind) ==
    /\ At(t, "clearHelper", pc)
    /\ \E ok \in BOOLEAN :
          IF ok
          THEN Goto(t, [Top(t) EXCEPT !.pc = next]) /\ hist' = hist
          ELSE Throw(t, Err(kind, callNo[t])) /\ Note(t, 0, kind = "primitive")
    /\ UNCHANGED <<callNo, nCalls>>

\* id = await ui5.element.getId(selector, index, timeout);
ClearHelperGetId(t) == ClearHelperStep(t, "getId", "getActiveElementOf", "notfound")
\* elem = await browser.getActiveElement();   (selector given)
ClearHelperGetActiveElementOf(t) ==
    ClearHelperStep(t, "getActiveElementOf", "execute", "notfound")
\* elem = await browser.getActiveElement();   (no selector)
ClearHelperGetActiveElement(t) ==
    ClearHelperStep(t, "getActiveElement", "elemClick", "notfound")
\* await elem.click();
ClearHelperElemClick(t) == ClearHelperStep(t, "elemClick", "getAttribute", "primitive")
\* id = await util.function.getAttribute(elem, "id");
ClearHelperGetAttribute(t) == ClearHelperStep(t, "getAttribute", "execute", "notfound")

\* const tokenizers = await browser.execute(...); if (tokenizers && tokenizers.length) selectAll
ClearHelperExecute(t) ==
    /\ At(t, "clearHelper", "execute")
    /\ LET f == Top(t) IN
       \E out \in {"tokens", "none", "throw"} :
          CASE out = "tokens" ->
                 /\ stack' = [stack EXCEPT ![t] =
                       SetTop(@, [f EXCEPT !.pc = "pressBackspace"])
                       \o selectAll(f.sel, f.index, f.timeout)]
                 /\ UNCHANGED <<exc, ret>>
                 /\ hist' = hist
            [] out = "none" -> Return(t) /\ hist' = hist
            [] OTHER -> Throw(t, Err("primitive", callNo[t])) /\ Note(t, 0, TRUE)
    /\ UNCHANGED <<callNo, nCalls>>

\* await common.userInteraction.pressBackspace();
ClearHelperPressBackspace(t) ==
    /\ At(t, "clearHelper", "pressBackspace")
    /\ \E ok \in BOOLEAN :
          IF ok
          THEN Return(t) /\ hist' = hist
          ELSE Throw(t, Err("primitive", callNo[t])) /\ Note(t, 0, TRUE)
    /\ UNCHANGED <<callNo, nCalls>>

\* -------------------------------------------------------------- clearAndFill
clearAndFill(selector, value, index, timeout) ==
    [fn |-> "clearAndFill", pc |-> "entry", sel |-> selector, value |-> value,
     index |-> index, timeout |-> timeout]

\* typeof value === "number" || typeof value === "string" || typeof value === "boolean"
ClearAndFillAccepts(value) == value.type \in {"number", "string", "boolean"}

ClearAndFillEntry(t) ==
    /\ At(t, "clearAndFill", "entry")
    /\ LET f == Top(t) IN
       IF ClearAndFillAccepts(f.value)
       THEN /\ stack' = [stack EXCEPT ![t] =
                  SetTop(@, [f EXCEPT !.pc = "fillActive"])
                  \o clear(f.sel, f.index, f.timeout)]
            /\ UNCHANGED <<exc, ret>>
            /\ hist' = IF t = Main
                       THEN [hist EXCEPT !.trace = @ \o
                               <<Event("typeof", f.sel, "value", f.value.type),
                                 Event("clear", f.sel, "", "")>>]
                       ELSE hist
       ELSE /\ Throw(t, logException(Err("value", callNo[t])))
            /\ hist' = IF t = Main
                       THEN [hist EXCEPT !.logs = @ + 1,
                                         !.trace = Append(@, Event("typeof", f.sel, "value", f.value.type))]
                       ELSE hist
    /\ UNCHANGED <<callNo, nCalls>>

\* await common.userInteraction.fillActive(value);
ClearAndFillFillActive(t) ==
    /\ At(t, "clearAndFill", "fillActive")
    /\ LET f == Top(t) IN
       \E ok \in BOOLEAN :
          /\ IF ok THEN Return(t) ELSE Throw(t, Err("primitive", callNo[t]))
          /\ hist' = IF t = Main
                     THEN [hist EXCEPT !.primFailed = @ \/ ~ok,
                                       !.trace = Append(@, Event("fillActive", NoSel, f.value.text, OkText(ok)))]
                     ELSE hist
    /\ UNCHANGED <<callNo, nCalls>>

\* ------------------------------------------- clearAndFillAndRetry: the attempt
\* What the element reads back after the input.
Readbacks == {"10", "10.00", "other"}
\* Number(text), for the texts of the model; -1 stands for NaN
Num(text) == CASE text \in {"10", "10.00"} -> 10 [] text = "" -> 0 [] OTHER -> -1
\* JavaScript's read == value for a string read back
LooseEq(read, value) ==
    CASE value.type = "string" -> read = value.text
      [] value.type = "number" -> Num(read) # -1 /\ Num(read) = Num(value.text)
      [] value.type = "boolean" -> Num(read) = 1
      [] OTHER -> FALSE

\* if (elemValue != value)
DiffersSelf(read, value) == read # read
Differs(read, value) == ~LooseEq(read, value)

clearAndFillAttempt(selector, value, index, timeout, verify) ==
    <<[fn |-> "clearAndFillAttempt", pc |-> "afterClearAndFill", sel |-> selector,
       value |-> value, index |-> index, timeout |-> timeout, verify |-> verify,
       elem |-> NoElem],
      clearAndFill(selector, value, index, timeout)>>

\* await this.clearAndFill(...) returned; if (verify) elem = await getDisplayed(...)
ClearAndFillAttemptVerify(t) ==
    /\ At(t, "clearAndFillAttempt", "afterClearAndFill")
    /\ IF Top(t).verify
       THEN Goto(t, [Top(t) EXCEPT !.pc = "getDisplayed"])
       ELSE Return(t)
    /\ Did(t, "verify", Top(t).sel, "", BoolText(Top(t).verify))
    /\ UNCHANGED <<callNo, nCalls>>

\* const elem = await ui5.element.getDisplayed(selector, index, timeout);
ClearAndFillAttemptGetDisplayed(t) ==
    /\ At(t, "clearAndFillAttempt", "getDisplayed")
    /\ LET f == Top(t)
           h == Handle(f.sel, f.index, callNo[t]) IN
       \E found \in BOOLEAN :
          /\ IF found
             THEN Goto(t, [f EXCEPT !.pc = "getValue", !.elem = h])
             ELSE Throw(t, Err("notfound", callNo[t]))
          /\ Did(t, "getDisplayed", f.sel, "", OkText(found))
    /\ UNCHANGED <<callNo, nCalls>>

\* let elemValue = await ui5.element.getValue(...); if (elemValue != value) ...
ClearAndFillAttemptGetValue(t) ==
    /\ At(t, "clearAndFillAttempt", "getValue")
    /\ LET f == Top(t) IN
       \/ \E read \in Readbacks :
             /\ IF Differs(read, f.value)
                THEN Goto(t, [f EXCEPT !.pc = "getInnerAttribute"])
                ELSE Return(t)
             /\ Did(t, "getValue", f.sel, "", read)
       \/ /\ Throw(t, Err("notfound", callNo[t]))
          /\ Did(t, "getValue", f.sel, "", "error")
    /\ UNCHANGED <<callNo, nCalls>>

\* elemValue = await ui5.element.getInnerAttribute(elem, "data-value"); if (elemValue != value) throw
ClearAndFillAttemptGetInnerAttribute(t) ==
    /\ At(t, "clearAndFillAttempt", "getInnerAttribute")
    /\ LET f == Top(t) IN
       \E read \in Readbacks :
          /\ IF Differs(read, f.value)
             THEN Throw(t, Err("mismatch", callNo[t]))
             ELSE Return(t)
          /\ Did(t, "getInnerAttribute", f.sel, "data-value", read)
    /\ UNCHANGED <<callNo, nCalls>>

\* ----------------------------------------------- clearAndFillSmartFieldInput
clearAndFillSmartFieldInput(selector, value, index, timeout) ==
    [fn |-> "clearAndFillSmartFieldInput", pc |-> "getId", sel |-> selector,
     value |-> value, index |-> index, timeout |-> timeout, elem |-> NoElem]

\* const id = await ui5.element.getId(selector, index, timeout);
SmartFieldGetId(t) ==
    /\ At(t, "clearAndFillSmartFieldInput", "getId")
    /\ \E found \in BOOLEAN :
          IF found
          THEN Goto(t, [Top(t) EXCEPT !.pc = "getByCss"])
          ELSE Throw(t, Err("notfound", callNo[t]))
    /\ UNCHANGED <<callNo, nCalls, hist>>

\* const elem = await nonUi5.element.getByCss(`input[id*='${id}']`);
SmartFieldGetByCss(t) ==
    /\ At(t, "clearAndFillSmartFieldInput", "getByCss")
    /\ LET f == Top(t) IN
       \E found \in BOOLEAN :
          IF found
          THEN Goto(t, [f EXCEPT !.pc = "click",
                                 !.elem = Inner(f.sel, "input", f.index, callNo[t])])
          ELSE Throw(t, Err("notfound", callNo[t]))
    /\ UNCHANGED <<callNo, nCalls, hist>>

\* await elem.click(); await ui5.userInteraction.selectAll(selector, index, timeout);
SmartFieldClick(t) ==
    /\ At(t, "clearAndFillSmartFieldInput", "click")
    /\ LET f == Top(t) IN
       \E ok \in BOOLEAN :
          IF ok
          THEN /\ stack' = [stack EXCEPT ![t] =
                     SetTop(@, [f EXCEPT !.pc = "setValue"])
                     \o selectAll(f.sel, f.index, f.timeout)]
               /\ UNCHANGED <<exc, ret>>
               /\ hist' = hist
          ELSE Throw(t, Err("primitive", callNo[t])) /\ Note(t, 0, TRUE)
    /\ UNCHANGED <<callNo, nCalls>>

\* await elem.setValue(value);
SmartFieldSetValue(t) ==
    /\ At(t, "clearAndFillSmartFieldInput", "setValue")
    /\ \E ok \in BOOLEAN :
          IF ok
          THEN Return(t) /\ hist' = hist
          ELSE Throw(t, Err("primitive", callNo[t])) /\ Note(t, 0, TRUE)
    /\ UNCHANGED <<callNo, nCalls>>

\* ----------------------------------------------------------- _verifyTabSwitch
\* const tabElem = await ui5.element.getDisplayed(selector);  (index and timeout defaulted)
verifyTabSwitch(selector) ==
    [fn |-> "verifyTabSwitch", pc |-> "getDisplayed", sel |-> selector,
     tabElem |-> NoElem, tabParentElem |-> NoElem]

\* history: whether the tab element or its parent carried a selected-indicator class
Verified(t, selected) ==
    hist' = IF t = Main
            THEN [hist EXCEPT !.verified = IF selected THEN "true" ELSE "false"]
            ELSE hist

VerifyGetDisplayed(t) ==
    /\ At(t, "verifyTabSwitch", "getDisplayed")
    /\ LET f == Top(t) IN
       \E found \in BOOLEAN :
          IF found
          THEN Goto(t, [f EXCEPT !.pc = "getAttribute",
                                 !.tabElem = Handle(f.sel, 0, callNo[t])])
          ELSE Throw(t, Err("notfound", callNo[t]))
    /\ UNCHANGED <<callNo, nCalls, hist>>

\* const tabClassList = await tabElem.getAttribute("class"); if (indicatorClasses.some(...)) return true;
VerifyGetAttribute(t) ==
    /\ At(t, "verifyTabSwitch", "getAttribute")
    /\ \E selected \in BOOLEAN :
          IF selected
          THEN ReturnValue(t, TRUE) /\ Verified(t, TRUE)
          ELSE Goto(t, [Top(t) EXCEPT !.pc = "getProperty"]) /\ hist' = hist
    /\ UNCHANGED <<callNo, nCalls>>

\* const tabElemTextValue = await ui5.control.getProperty(tabElem, "text");
VerifyGetProperty(t) ==
    /\ At(t, "verifyTabSwitch", "getProperty")
    /\ Goto(t, [Top(t) EXCEPT !.pc = "getDisplayedParent"])
    /\ UNCHANGED <<callNo, nCalls, hist>>

\* const tabParentElem = await ui5.element.getDisplayed(tabParentSelector, 0, 5000);
VerifyGetDisplayedParent(t) ==
    /\ At(t, "verifyTabSwitch", "getDisplayedParent")
    /\ LET f == Top(t) IN
       \E found \in BOOLEAN :
          IF found
          THEN Goto(t, [f EXCEPT !.pc = "getAttributeParent",
                                 !.tabParentElem = Inner(f.sel, "tabParent", 0, callNo[t])])
          ELSE Throw(t, Err("notfound", callNo[t]))
    /\ UNCHANGED <<callNo, nCalls, hist>>

\* const tabParentClassList = await tabParentElem.getAttribute("class"); return true or false
VerifyGetAttributeParent(t) ==
    /\ At(t, "verifyTabSwitch", "getAttributeParent")
    /\ \E selected \in BOOLEAN : ReturnValue(t, selected) /\ Verified(t, selected)
    /\ UNCHANGED <<callNo, nCalls>>

\* ------------------------------------------------------ clickTab: the attempt
\* if (tabSwitchedSuccessfully === false)
TabSwitchFailedUnawaited(tabSwitchedSuccessfully) == FALSE
TabSwitchFailed(tabSwitchedSuccessfully) == tabSwitchedSuccessfully = FALSE

clickTabAttempt(selector, index, timeout) ==
    <<[fn |-> "clickTabAttempt", pc |-> "afterClick", sel |-> selector, index |-> index,
       timeout |-> timeout],
      click(selector, index, timeout)>>

\* await click(...) returned; const tabSwitchedSuccessfully = await this._verifyTabSwitch(selector);
ClickTabVerify(t) ==
    /\ At(t, "clickTabAttempt", "afterClick")
    /\ Call(t, [Top(t) EXCEPT !.pc = "afterVerify"], verifyTabSwitch(Top(t).sel))
    /\ hist' = [hist EXCEPT !.clicked = TRUE]
    /\ UNCHANGED <<callNo, nCalls>>

\* if (tabSwitchedSuccessfully === false) logException(new Error("Could not verify ..."))
ClickTabAfterVerify(t) ==
    /\ At(t, "clickTabAttempt", "afterVerify")
    /\ stack' = [stack EXCEPT ![t] = Pop(@)]
    /\ ret' = [ret EXCEPT ![t] = FALSE]
    /\ IF TabSwitchFailed(ret[t])
       THEN /\ exc' = [exc EXCEPT ![t] = logException(Err("verify", callNo[t]))]
            /\ Note(t, 1, FALSE)
       ELSE UNCHANGED <<exc, hist>>
    /\ UNCHANGED <<callNo, nCalls>>

\* ------------------------------------------------- selectFromTab: the attempt
MenuItemTimeout == 1     \* the 500 ms of the two menu-item clicks, in polls

arrowSelector(selector) == [metadata |-> "sap.ui.core.Icon", role |-> "arrow"]
menuItemSelectorOldUI5(selector, value) == [metadata |-> "sap.ui.unified.MenuItem", role |-> "item"]
menuItemSelectorNewUI5(selector, value) == [metadata |-> "sap.m.IconTabFilter", role |-> "item"]

selectFromTabAttempt(selector, value, index, timeout) ==
    <<[fn |-> "selectFromTabAttempt", pc |-> "poll", sel |-> selector, value |-> value,
       index |-> index, timeout |-> timeout, polls |-> 0],
      click(arrowSelector(selector), index, timeout)>>

\* One poll of waitUntil: Promise.any starts both menu-item clicks at once.
SelectFromTabPoll(t) ==
    /\ At(t, "selectFromTabAttempt", "poll")
    /\ \A c \in Children : ~Running(c)
    /\ LET f == Top(t) IN
       /\ stack' = [c \in Tasks |->
             CASE c = t -> SetTop(stack[t], [f EXCEPT !.pc = "any"])
               [] c = 1 -> <<click(menuItemSelectorNewUI5(f.sel, f.value), 0, MenuItemTimeout)>>
               [] c = 2 -> <<click(menuItemSelectorOldUI5(f.sel, f.value), 0, MenuItemTimeout)>>
               [] OTHER -> stack[c]]
       /\ exc' = [c \in Tasks |-> IF c \in Children THEN NoErr ELSE exc[c]]
       /\ callNo' = [c \in Tasks |-> IF c \in Children THEN callNo[t] ELSE callNo[c]]
    /\ UNCHANGED <<ret, nCalls, hist>>

\* Promise.any settles: with the first click that fulfils the poll returns true,
\* waitUntil resolves and _verifyTabSwitch is called; when both clicks have
\* rejected the poll returns false.
SelectFromTabAny(t) ==
    /\ At(t, "selectFromTabAttempt", "any")
    /\ LET f == Top(t) IN
       \/ /\ \E c \in Children : ~Running(c) /\ exc[c] = NoErr
          /\ Call(t, [f EXCEPT !.pc = "afterVerify"], verifyTabSwitch(f.sel))
          /\ hist' = [hist EXCEPT !.clicked = TRUE]
       \/ /\ \A c \in Children : ~Running(c) /\ exc[c] # NoErr
          /\ IF WaitUntilExpired(f.polls + 1, f.timeout)
             THEN Throw(t, Err("timeout", callNo[t]))
             ELSE Goto(t, [f EXCEPT !.polls = @ + 1, !.pc = "poll"])
          /\ hist' = hist
    /\ UNCHANGED <<callNo, nCalls>>

\* if (tabSwitchedSuccessfully === false) logException(new Error("Could not verify ..."))
SelectFromTabAfterVerify(t) ==
    /\ At(t, "selectFromTabAttempt", "afterVerify")
    /\ stack' = [stack EXCEPT ![t] = Pop(@)]
    /\ ret' = [ret EXCEPT ![t] = FALSE]
    /\ IF TabSwitchFailed(ret[t])
       THEN /\ exc' = [exc EXCEPT ![t] = logException(Err("verify", callNo[t]))]
            /\ Note(t, 1, FALSE)
       ELSE UNCHANGED <<exc, hist>>
    /\ UNCHANGED <<callNo, nCalls>>

\* ---------------------------------------------------------- scrollToElement
scrollToElement(selector, index, alignment, timeout) ==
    [fn |-> "scrollToElement", pc |-> "getDisplayed", sel |-> selector, index |-> index,
     alignment |-> alignment, timeout |-> timeout, elem |-> NoElem]

\* const elem = await ui5.element.getDisplayed(selector, index, timeout); if (elem) ...
ScrollGetDisplayed(t) ==
    /\ At(t, "scrollToElement", "getDisplayed")
    /\ LET f == Top(t) IN
       \E out \in {"found", "null", "throw"} :
          CASE out = "found" -> Goto(t, [f EXCEPT !.pc = "scrollIntoView",
                                          !.elem = Handle(f.sel, f.index, callNo[t])])
            [] out = "null" -> Return(t)
            [] OTHER -> Throw(t, Err("notfound", callNo[t]))
    /\ UNCHANGED <<callNo, nCalls, hist>>

\* await elem.scrollIntoView(options);
ScrollIntoView(t) ==
    /\ At(t, "scrollToElement", "scrollIntoView")
    /\ \E ok \in BOOLEAN :
          IF ok
          THEN Return(t) /\ hist' = hist
          ELSE Throw(t, Err("primitive", callNo[t])) /\ Note(t, 0, TRUE)
    /\ UNCHANGED <<callNo, nCalls>>

\* ------------------------------------------------------------ Control.focus
focus(selector, index, timeout) ==
    [fn |-> "focus", pc |-> "getDisplayed", sel |-> selector, index |-> index,
     timeout |-> timeout, elem |-> NoElem]

\* const elem = await ui5.element.getDisplayed(selector, index, timeout);
FocusGetDisplayed(t) ==
    /\ At(t, "focus", "getDisplayed")
    /\ LET f == Top(t) IN
       \E found \in BOOLEAN :
          IF found
          THEN Goto(t, [f EXCEPT !.pc = "getAttribute",
                                 !.elem = Handle(f.sel, f.index, callNo[t])])
          ELSE Throw(t, Err("notfound", callNo[t]))
    /\ UNCHANGED <<callNo, nCalls, hist>>

\* const id = await elem.getAttribute("id");
FocusGetAttribute(t) ==
    /\ At(t, "focus", "getAttribute")
    /\ Goto(t, [Top(t) EXCEPT !.pc = "execute"])
    /\ UNCHANGED <<callNo, nCalls, hist>>

\* const focused = await browser.execute(...);
\* if (!focused) { ui5.userInteraction.scrollToElement(selector, index, "center", timeout); }
\* The call is not awaited: scrollToElement runs on as a task of its own.
FocusExecute(t) ==
    /\ At(t, "focus", "execute")
    /\ LET f == Top(t) IN
       \E focused \in BOOLEAN :
          IF focused
          THEN /\ Return(t)
               /\ callNo' = callNo
          ELSE \E fl \in Floaters :
                  /\ ~Running(fl)
                  /\ \A o \in Floaters : o < fl => Running(o)
                  /\ stack' = [stack EXCEPT ![t] = Pop(@),
                                            ![fl] = <<scrollToElement(f.sel, f.index, "center", f.timeout)>>]
                  /\ exc' = [exc EXCEPT ![fl] = NoErr]
                  /\ callNo' = [callNo EXCEPT ![fl] = callNo[t]]
                  /\ ret' = ret
    /\ UNCHANGED <<nCalls, hist>>

\* ------------------------------------------------------ util.function.retry
\* Calls the function with the arguments; on failure waits `interval` and calls
\* it again, up to `retries` times; then rethrows the last error.  `body` holds
\* the frames of the function up to its first await.
retry(body, retries, interval) ==
    <<[fn |-> "retry", pc |-> "attempt", body |-> body, retries |-> retries,
       interval |-> interval]>> \o body

\* the attempt returned
RetryReturn(t) ==
    /\ At(t, "retry", "attempt")
    /\ Return(t)
    /\ hist' = [hist EXCEPT !.lastOk = TRUE]
    /\ UNCHANGED <<callNo, nCalls>>

\* the retries left after one more failed attempt
RetriesAfterSame(retries) == retries
RetriesAfter(retries) == retries - 1

\* the attempt threw: wait and call again while retries are left, else rethrow
RetryCatch(t) ==
    /\ Caught(t, "retry")
    /\ LET f == Top(t) IN
       /\ IF f.retries > 0
          THEN /\ stack' = [stack EXCEPT ![t] =
                     SetTop(@, [f EXCEPT !.pc = "sleep", !.retries = RetriesAfter(@)])]
               /\ exc' = [exc EXCEPT ![t] = NoErr]
               /\ ret' = ret
          ELSE Throw(t, exc[t])
       /\ hist' = [hist EXCEPT !.fails = @ + 1, !.lastOk = FALSE, !.lastErr = exc[t]]
    /\ UNCHANGED <<callNo, nCalls>>

\* the interval has passed: the next attempt starts
RetrySleep(t) ==
    /\ At(t, "retry", "sleep")
    /\ hist.attempts < MaxAttempts
    /\ LET f == Top(t) IN
       /\ stack' = [stack EXCEPT ![t] = SetTop(@, [f EXCEPT !.pc = "attempt"]) \o f.body]
       /\ hist' = [hist EXCEPT !.attempts = @ + 1, !.nWaits = @ + 1,
                               !.waits = @ \cup {f.interval},
                               !.afterOk = @ \/ hist.lastOk,
                               !.prims = 0, !.logs = 0, !.ready = FALSE,
                               !.primFailed = FALSE, !.clicked = FALSE,
                               !.verified = "none", !.trace = <<>>]
    /\ callNo' = [callNo EXCEPT ![t] = @ + 1]
    /\ UNCHANGED <<exc, ret, nCalls>>

\* ----------------------------------------------------------- retry wrappers
Intervals == {1000, 5000}
Retries == 0 .. MaxRetries

clickAndRetryOneMore(selector, index, timeout, retries, interval) ==
    <<Awaiter("clickAndRetry")>> \o retry(<<click(selector, index, timeout)>>, retries + 1, interval)
clickAndRetryTimeoutAsInterval(selector, index, timeout, retries, interval) ==
    <<Awaiter("clickAndRetry")>> \o retry(<<click(selector, index, timeout)>>, retries, timeout)
clickAndRetry(selector, index, timeout, retries, interval) ==
    <<Awaiter("clickAndRetry")>> \o retry(<<click(selector, index, timeout)>>, retries, interval)

fillAndRetry(selector, value, index, timeout, retries, interval) ==
    <<Awaiter("fillAndRetry")>> \o retry(<<fill(selector, value, index, timeout)>>, retries, interval)

clickSelectArrowAndRetry(selector, index, retries, interval) ==
    <<Awaiter("clickSelectArrowAndRetry")>> \o retry(<<clickSelectArrow(selector, index)>>, retries, interval)

clearAndRetry(selector, index, timeout, retries, interval) ==
    <<Awaiter("clearAndRetry")>> \o retry(clear(selector, index, timeout), retries, interval)

clearAndFillAndRetry(selector, value, index, timeout, retries, interval, verify) ==
    <<Awaiter("clearAndFillAndRetry")>>
    \o retry(clearAndFillAttempt(selector, value, index, timeout, verify), retries, interval)

clearAndFillSmartFieldInputAndRetry(selector, value, index, timeout, retries, interval) ==
    <<Awaiter("clearAndFillSmartFieldInputAndRetry")>>
    \o retry(<<clearAndFillSmartFieldInput(selector, value, index, timeout)>>, retries, interval)

TabRetries == 3          \* clickTab and selectFromTab pass 3 to retry
TabInterval == 5000      \* and 5000 as the interval

clickTab(selector, index, timeout) ==
    <<Awaiter("clickTab")>>
    \o retry(clickTabAttempt(selector, index, timeout), TabRetries, TabInterval)

selectFromTab(selector, value, index, timeout) ==
    <<Awaiter("selectFromTab")>>
    \o retry(selectFromTabAttempt(selector, value, index, timeout), TabRetries, TabInterval)

\* --------------------------------------------------------------- searchFor
DefaultRetries == 3      \* clearAndFillAndRetry(..., retries = 3, ...)
DefaultInterval == 5000  \* clearAndFillAndRetry(..., interval = 5000, ...)

\* await ui5.userInteraction.clearAndFillAndRetry(selector, value, index, timeout);
searchFor(selector, value, index, timeout, useEnter) ==
    <<[fn |-> "searchFor", pc |-> "afterFill", sel |-> selector, index |-> index,
       timeout |-> timeout, useEnter |-> useEnter, id |-> ""]>>
    \o clearAndFillAndRetry(selector, value, index, timeout, DefaultRetries,
                            DefaultInterval, TRUE)

\* "[id='" + id + "-search']"
SearchCssReset(id) == "[id='" \o id \o "-reset']"
SearchCss(id) == "[id='" \o id \o "-search']"

\* clearAndFillAndRetry returned; if (useEnter === true) pressEnter() else getId(...)
SearchForAfterFill(t) ==
    /\ At(t, "searchFor", "afterFill")
    /\ LET f == Top(t) IN
       /\ Goto(t, [f EXCEPT !.pc = IF f.useEnter = TRUE THEN "pressEnter" ELSE "getId"])
       /\ Did(t, "useEnter", f.sel, "", BoolText(f.useEnter))
    /\ UNCHANGED <<callNo, nCalls>>

\* await common.userInteraction.pressEnter();
SearchForPressEnter(t) ==
    /\ At(t, "searchFor", "pressEnter")
    /\ \E ok \in BOOLEAN :
          /\ IF ok THEN Return(t) ELSE Throw(t, Err("primitive", callNo[t]))
          /\ Did(t, "pressEnter", NoSel, "", OkText(ok))
    /\ UNCHANGED <<callNo, nCalls>>

\* const id = await ui5.element.getId(selector, index, timeout);
SearchForGetId(t) ==
    /\ At(t, "searchFor", "getId")
    /\ \/ \E id \in ElementIds :
             /\ Goto(t, [Top(t) EXCEPT !.pc = "getByCss", !.id = id])
             /\ Did(t, "getId", Top(t).sel, "", id)
       \/ /\ Throw(t, Err("notfound", callNo[t]))
          /\ Did(t, "getId", Top(t).sel, "", "error")
    /\ UNCHANGED <<callNo, nCalls>>

\* const searchButton = await nonUi5.element.getByCss("[id='" + id + "-search']", 0, timeout);
SearchForGetByCss(t) ==
    /\ At(t, "searchFor", "getByCss")
    /\ LET f == Top(t) IN
       \E found \in BOOLEAN :
          /\ IF found
             THEN Goto(t, [f EXCEPT !.pc = "click"])
             ELSE Throw(t, Err("notfound", callNo[t]))
          /\ Did(t, "getByCss", f.sel, SearchCss(f.id), OkText(found))
    /\ UNCHANGED <<callNo, nCalls>>

\* await searchButton.click();
SearchForClick(t) ==
    /\ At(t, "searchFor", "click")
    /\ LET f == Top(t) IN
       \E ok \in BOOLEAN :
          /\ IF ok THEN Return(t) ELSE Throw(t, Err("primitive", callNo[t]))
          /\ Did(t, "searchClick", f.sel, SearchCss(f.id), OkText(ok))
    /\ UNCHANGED <<callNo, nCalls>>

\* --------------------------------------------------------------- selectBox
\* what a timeout parameter the caller omits evaluates to, in polls
DefaultTimeout == MaxTimeout

\* null: `typeof null` is "object"
Null == [type |-> "object", text |-> "null"]
SelectValues == {[type |-> "string", text |-> "Germany"], [type |-> "string", text |-> "France"],
                 [type |-> "undefined", text |-> ""], Null}

\* selector.elementProperties
elementProperties(selector) == [metadata |-> selector.metadata]

\* const itemSelector = {elementProperties: {mProperties: {text: value},
\*                                            ancestorProperties: selector.elementProperties}};
\* (mProperties is the set of its key/value pairs)
ItemSelectorNoAncestor(selector, value) ==
    [elementProperties |-> [mProperties |-> {<<"text", value.text>>},
                            ancestorProperties |-> elementProperties(NoSel)]]
ItemSelector(selector, value) ==
    [elementProperties |-> [mProperties |-> {<<"text", value.text>>},
                            ancestorProperties |-> elementProperties(selector)]]

\* value !== undefined && value !== null
ValueGiven(value) == value.type # "undefined" /\ value # Null

NoValueMessage == "Please provide a value as second argument."

selectBox(selector, value, index) ==
    [fn |-> "selectBox", pc |-> "entry", sel |-> selector, value |-> value, index |-> index]

\* await this.clickSelectArrow(selector, index);
SelectBoxEntry(t) ==
    /\ At(t, "selectBox", "entry")
    /\ LET f == Top(t) IN
       /\ Call(t, [f EXCEPT !.pc = "afterArrow"], clickSelectArrow(f.sel, f.index))
       /\ Did(t, "clickSelectArrow", f.sel, "", "")
    /\ UNCHANGED <<callNo, nCalls>>

\* if (value !== undefined && value !== null) { ...; await this.scrollToElement(itemSelector); }
\* else { this.ErrorHandler.logException(new Error("Please provide a value as second argument.")); }
SelectBoxAfterArrow(t) ==
    /\ At(t, "selectBox", "afterArrow")
    /\ LET f == Top(t)
           itemSelector == ItemSelector(f.sel, f.value)
           tested == Event("value", f.sel, f.value.text, f.value.type)
       IN
       IF ValueGiven(f.value)
       THEN /\ Call(t, [f EXCEPT !.pc = "afterScroll"],
                    scrollToElement(itemSelector, 0, "center", DefaultTimeout))
            /\ hist' = IF t = Main
                       THEN [hist EXCEPT !.trace = @ \o
                               <<tested, Event("scrollToElement", itemSelector, "", "")>>]
                       ELSE hist
       ELSE /\ Throw(t, logException(Err(NoValueMessage, callNo[t])))
            /\ hist' = IF t = Main
                       THEN [hist EXCEPT !.logs = @ + 1, !.trace = Append(@, tested)]
                       ELSE hist
    /\ UNCHANGED <<callNo, nCalls>>

\* await this.click(itemSelector);
SelectBoxAfterScroll(t) ==
    /\ At(t, "selectBox", "afterScroll")
    /\ LET f == Top(t)
           itemSelector == ItemSelector(f.sel, f.value)
       IN
       /\ Call(t, [f EXCEPT !.pc = "afterClick"], click(itemSelector, 0, DefaultTimeout))
       /\ Did(t, "click", itemSelector, "", "")
    /\ UNCHANGED <<callNo, nCalls>>

\* the click returned: selectBox returns
SelectBoxAfterClick(t) ==
    /\ At(t, "selectBox", "afterClick")
    /\ Return(t)
    /\ UNCHANGED <<callNo, nCalls, hist>>

\* ----------------------------------------------------- selectMultiComboBox
ItemTexts == {"Option 1", "Option 2"}
ValueLists == UNION {[1 .. n -> ItemTexts] : n \in 0 .. MaxValues}

\* const ui5ControlProperties = {elementProperties: {metadata: "sap.m.CheckBox", mProperties: {}},
\*     parentProperties: {metadata: "sap.m.StandardListItem", mProperties: {title: values[v]}}};
ui5ControlPropertiesUntitled(value) ==
    [elementProperties |-> [metadata |-> "sap.m.CheckBox", mProperties |-> {}],
     parentProperties |-> [metadata |-> "sap.m.StandardListItem", mProperties |-> {}]]
ui5ControlProperties(value) ==
    [elementProperties |-> [metadata |-> "sap.m.CheckBox", mProperties |-> {}],
     parentProperties |-> [metadata |-> "sap.m.StandardListItem",
                           mProperties |-> {<<"title", value>>}]]

\* v: the position in `values` the for-in loop is at (keys come in ascending order)
selectMultiComboBox(selector, values, index) ==
    [fn |-> "selectMultiComboBox", pc |-> "entry", sel |-> selector, values |-> values,
     index |-> index, v |-> 1]

\* await this.clickSelectArrow(selector, index);
SelectMultiComboBoxEntry(t) ==
    /\ At(t, "selectMultiComboBox", "entry")
    /\ LET f == Top(t) IN
       /\ Call(t, [f EXCEPT !.pc = "loop"], clickSelectArrow(f.sel, f.index))
       /\ hist' = IF t = Main
                  THEN [hist EXCEPT !.values = f.values,
                                    !.trace = Append(@, Event("clickSelectArrow", f.sel, "", ""))]
                  ELSE hist
    /\ UNCHANGED <<callNo, nCalls>>

\* for (const v in values) { ...; await this.scrollToElement(ui5ControlProperties); ... }
\* and, when the keys are used up, the loop is left
SelectMultiComboBoxLoop(t) ==
    /\ At(t, "selectMultiComboBox", "loop")
    /\ LET f == Top(t) IN
       IF f.v <= Len(f.values)
       THEN /\ Call(t, [f EXCEPT !.pc = "afterScroll"],
                    scrollToElement(ui5ControlProperties(f.values[f.v]), 0, "center",
                                    DefaultTimeout))
            /\ Did(t, "scrollToElement", ui5ControlProperties(f.values[f.v]), "", "")
       ELSE /\ Goto(t, [f EXCEPT !.pc = "pressEscape"])
            /\ hist' = hist
    /\ UNCHANGED <<callNo, nCalls>>

\* await this.click(ui5ControlProperties);
SelectMultiComboBoxAfterScroll(t) ==
    /\ At(t, "selectMultiComboBox", "afterScroll")
    /\ LET f == Top(t) IN
       /\ Call(t, [f EXCEPT !.pc = "loop", !.v = @ + 1],
               click(ui5ControlProperties(f.values[f.v]), 0, DefaultTimeout))
       /\ Did(t, "click", ui5ControlProperties(f.values[f.v]), "", "")
    /\ UNCHANGED <<callNo, nCalls>>

\* await common.userInteraction.pressEscape();
SelectMultiComboBoxPressEscape(t) ==
    /\ At(t, "selectMultiComboBox", "pressEscape")
    /\ \E ok \in BOOLEAN :
          /\ IF ok THEN Return(t) ELSE Throw(t, Err("primitive", callNo[t]))
          /\ Did(t, "pressEscape", NoSel, "", OkText(ok))
    /\ UNCHANGED <<callNo, nCalls>>

\* ------------------------------------------------- the timeout parameter
\* timeout: number = parseFloat(process.env.QMATE_CUSTOM_TIMEOUT!) || GLOBAL_DEFAULT_WAIT_TIMEOUT
\*
\* A JavaScript number is (-1)^neg * mant / 10^scale, or NaN; `undefined` is the
\* argument a caller omits.  A string is the sequence of its characters.
Undefined == [type |-> "undefined", nan |-> FALSE, neg |-> FALSE, mant |-> 0, scale |-> 0]
NaN == [type |-> "number", nan |-> TRUE, neg |-> FALSE, mant |-> 0, scale |-> 0]
RECURSIVE Normal(_)
Normal(x) ==
    IF x.scale > 0 /\ x.mant % 10 = 0
    THEN Normal([x EXCEPT !.mant = @ \div 10, !.scale = @ - 1])
    ELSE x
Number(neg, mant, scale) ==
    Normal([type |-> "number", nan |-> FALSE, neg |-> neg, mant |-> mant, scale |-> scale])

GLOBAL_DEFAULT_WAIT_TIMEOUT == 30000

\* process.env.QMATE_CUSTOM_TIMEOUT: not set, or a string
EnvChars == {"0", "7", ".", "-", " ", "s"}
EnvValues ==
    {[set |-> FALSE, text |-> <<>>]}
    \cup {[set |-> TRUE, text |-> s] : s \in UNION {[1 .. n -> EnvChars] : n \in 0 .. MaxEnvLen}}

\* ToString of the argument of parseFloat
StringOf(v) == IF v.set THEN v.text ELSE <<"u", "n", "d", "e", "f", "i", "n", "e", "d">>

DecimalDigits == <<"0", "1", "2", "3", "4", "5", "6", "7", "8", "9">>
IsDigit(c) == \E i \in 1 .. 10 : DecimalDigits[i] = c
DigitValue(c) == (CHOOSE i \in 1 .. 10 : DecimalDigits[i] = c) - 1
StrWhiteSpaceChars == {" "}

RECURSIVE TrimStart(_)
TrimStart(s) ==
    IF s # <<>> /\ Head(s) \in StrWhiteSpaceChars THEN TrimStart(Tail(s)) ELSE s

\* the digits a string starts with
RECURSIVE LeadingDigits(_)
LeadingDigits(s) ==
    IF s # <<>> /\ IsDigit(Head(s)) THEN <<Head(s)>> \o LeadingDigits(Tail(s)) ELSE <<>>

RECURSIVE DecimalValue(_)
DecimalValue(digits) ==
    IF digits = <<>> THEN 0
    ELSE 10 * DecimalValue(SubSeq(digits, 1, Len(digits) - 1)) + DigitValue(digits[Len(digits)])

\* parseFloat: skips leading white space, then reads the longest prefix that
\* is a decimal literal (sign, digits, fraction) and ignores what follows it;
\* NaN when there is no such prefix.  (None of EnvChars starts an exponent.)
parseFloat(string) ==
    LET trimmed == TrimStart(string)
        signed == trimmed # <<>> /\ Head(trimmed) \in {"-", "+"}
        unsigned == IF signed THEN Tail(trimmed) ELSE trimmed
        int == LeadingDigits(unsigned)
        rest == SubSeq(unsigned, Len(int) + 1, Len(unsigned))
        frac == IF rest # <<>> /\ Head(rest) = "." THEN LeadingDigits(Tail(rest)) ELSE <<>>
    IN  IF int = <<>> /\ frac = <<>>
        THEN NaN
        ELSE Number(signed /\ Head(trimmed) = "-", DecimalValue(int \o frac), Len(frac))

\* ToBoolean of a number: NaN, +0 and -0 are falsy
ToBooleanNotNaN(x) == ~x.nan
ToBoolean(x) == ~x.nan /\ x.mant # 0

\* a || b
Or(a, b) == IF ToBoolean(a) THEN a ELSE b

\* the value of the parameter `timeout` in the body: the default initialiser
\* is evaluated when the argument is undefined
TimeoutParameter(timeout, env) ==
    IF timeout = Undefined
    THEN Or(parseFloat(StringOf(env)), Number(FALSE, GLOBAL_DEFAULT_WAIT_TIMEOUT, 0))
    ELSE timeout

\* the timeouts a caller passes, or omits
TimeoutArguments == {Undefined, Number(FALSE, 0, 0), Number(FALSE, 5000, 0)}

\* ------------------------------------------------------------- test script
Idle == ~Running(Main) /\ nCalls < MaxCalls

Begin(op, frames) ==
    /\ Idle
    /\ stack' = [stack EXCEPT ![Main] = frames]
    /\ exc' = [exc EXCEPT ![Main] = NoErr]
    /\ callNo' = [callNo EXCEPT ![Main] = @ + 1]
    /\ nCalls' = nCalls + 1
    /\ hist' = [NoHist EXCEPT !.op = op]
    /\ UNCHANGED <<ret>>

BeginRetry(op, frames, retries, interval) ==
    /\ Idle
    /\ stack' = [stack EXCEPT ![Main] = frames]
    /\ exc' = [exc EXCEPT ![Main] = NoErr]
    /\ callNo' = [callNo EXCEPT ![Main] = @ + 1]
    /\ nCalls' = nCalls + 1
    /\ hist' = [NoHist EXCEPT !.op = op, !.retries = retries, !.interval = interval,
                              !.attempts = 1]
    /\ UNCHANGED <<ret>>

CallClick ==
    \E s \in Selectors, i \in Indexes, to \in Timeouts :
       \/ Begin("click", <<click(s, i, to)>>)
       \/ Begin("doubleClick", <<doubleClick(s, i, to)>>)
       \/ Begin("rightClick", <<rightClick(s, i, to)>>)

Init ==
    /\ stack = [t \in Tasks |-> <<>>]
    /\ exc = [t \in Tasks |-> NoErr]
    /\ ret = [t \in Tasks |-> FALSE]
    /\ callNo = [t \in Tasks |-> 0]
    /\ nCalls = 0
    /\ hist = NoHist

CallOp ==
    \/ CallClick
    \/ \E s \in Selectors, v \in Values, i \in Indexes, to \in Timeouts :
          Begin("fill", <<fill(s, v, i, to)>>)
    \/ \E s \in Selectors, i \in Indexes :
          Begin("clickSelectArrow", <<clickSelectArrow(s, i)>>)
    \/ \E s \in Selectors, i \in Indexes, to \in Timeouts :
          Begin("mouseOverElement", <<mouseOverElement(s, i, to)>>)

NextClick ==
    \/ CallClick
    \/ ClickGetDisplayed(Main)
    \/ ClickIsClickable(Main)
    \/ ClickPrim(Main)

SpecClick == Init /\ [][NextClick]_vars

NextOps ==
    \/ CallOp
    \/ ClickGetDisplayed(Main)
    \/ ClickIsClickable(Main)
    \/ ClickPrim(Main)
    \/ FillEntry(Main)
    \/ FillGetId(Main)
    \/ FillGetByCss(Main)
    \/ FillSetValue(Main)
    \/ ClickSelectArrowGetId(Main)
    \/ ClickSelectArrowGetByCss(Main)
    \/ ClickSelectArrowClick(Main)
    \/ MouseOverGetDisplayed(Main)
    \/ MouseOverMoveTo(Main)

SpecOps == Init /\ [][NextOps]_vars

\* A session of the retry wrappers is one call (a wrapper reads nothing that an
\* earlier call has left behind).  The wrappers are called with the default
\* index, the tab operations with any.
FirstCall == nCalls = 0

CallRetry ==
    /\ FirstCall
    /\ \E r \in Retries, iv \in Intervals, to \in Timeouts, s \in Selectors :
       \/ BeginRetry("clickAndRetry", clickAndRetry(s, 0, to, r, iv), r, iv)
       \/ \E v \in Values :
            BeginRetry("fillAndRetry", fillAndRetry(s, v, 0, to, r, iv), r, iv)
       \/ BeginRetry("clickSelectArrowAndRetry", clickSelectArrowAndRetry(s, 0, r, iv), r, iv)
       \/ \E c \in {s, NoSel} :
            BeginRetry("clearAndRetry", clearAndRetry(c, 0, to, r, iv), r, iv)
       \/ \E v \in Values, verify \in BOOLEAN :
            BeginRetry("clearAndFillAndRetry",
                       clearAndFillAndRetry(s, v, 0, to, r, iv, verify), r, iv)
       \/ \E v \in Values :
            BeginRetry("clearAndFillSmartFieldInputAndRetry",
                       clearAndFillSmartFieldInputAndRetry(s, v, 0, to, r, iv), r, iv)

CallTab ==
    /\ FirstCall
    /\ \E to \in Timeouts, s \in Selectors, i \in Indexes :
       \/ BeginRetry("clickTab", clickTab(s, i, to), 3, 5000)
       \/ \E v \in Values :
            BeginRetry("selectFromTab", selectFromTab(s, v, i, to), 3, 5000)

NextRetry ==
    \/ CallRetry
    \/ CallTab
    \/ \E t \in Tasks :
          \/ ClickGetDisplayed(t)
          \/ ClickIsClickable(t)
          \/ ClickPrim(t)
    \/ FillEntry(Main)
    \/ FillGetId(Main)
    \/ FillGetByCss(Main)
    \/ FillSetValue(Main)
    \/ ClickSelectArrowGetId(Main)
    \/ ClickSelectArrowGetByCss(Main)
    \/ ClickSelectArrowClick(Main)
    \/ SelectAllPressKey(Main)
    \/ ClearHelperGetId(Main)
    \/ ClearHelperGetActiveElementOf(Main)
    \/ ClearHelperGetActiveElement(Main)
    \/ ClearHelperElemClick(Main)
    \/ ClearHelperGetAttribute(Main)
    \/ ClearHelperExecute(Main)
    \/ ClearHelperPressBackspace(Main)
    \/ ClearAndFillEntry(Main)
    \/ ClearAndFillFillActive(Main)
    \/ ClearAndFillAttemptVerify(Main)
    \/ ClearAndFillAttemptGetDisplayed(Main)
    \/ ClearAndFillAttemptGetValue(Main)
    \/ ClearAndFillAttemptGetInnerAttribute(Main)
    \/ SmartFieldGetId(Main)
    \/ SmartFieldGetByCss(Main)
    \/ SmartFieldClick(Main)
    \/ SmartFieldSetValue(Main)
    \/ VerifyGetDisplayed(Main)
    \/ VerifyGetAttribute(Main)
    \/ VerifyGetProperty(Main)
    \/ VerifyGetDisplayedParent(Main)
    \/ VerifyGetAttributeParent(Main)
    \/ ClickTabVerify(Main)
    \/ ClickTabAfterVerify(Main)
    \/ SelectFromTabPoll(Main)
    \/ SelectFromTabAny(Main)
    \/ SelectFromTabAfterVerify(Main)
    \/ Unwind(Main)
    \/ RetryReturn(Main)
    \/ RetryCatch(Main)
    \/ RetrySleep(Main)
    \/ TailDone(Main)

SpecRetry == Init /\ [][NextRetry]_vars

\* Every await of a task completes: the driver answers, a timer fires.
StepRetry(t) ==
    \/ ClickGetDisplayed(t)
    \/ ClickIsClickable(t)
    \/ ClickPrim(t)
    \/ t = Main /\ NextRetry /\ nCalls' = nCalls

SpecRetryFair == SpecRetry /\ \A t \in {Main} \cup Children : WF_vars(StepRetry(t))

\* The same operation called again with another selector, all else equal; the
\* history keeps what the call before did.
OpaqueSelectors == Selectors \cup {[metadata |-> "sap.m.SearchField", role |-> "self"]}

BeginAgain(op, frames) ==
    /\ Idle
    /\ stack' = [stack EXCEPT ![Main] = frames]
    /\ exc' = [exc EXCEPT ![Main] = NoErr]
    /\ callNo' = [callNo EXCEPT ![Main] = @ + 1]
    /\ nCalls' = nCalls + 1
    /\ hist' = [NoHist EXCEPT !.op = op, !.prevOp = hist.op, !.prev = hist.trace,
                              !.prevOk = hist.op # "none" /\ exc[Main] = NoErr]
    /\ UNCHANGED <<ret>>

CallOpaque ==
    \E s \in OpaqueSelectors :
       \/ BeginAgain("fill", <<fill(s, [type |-> "string", text |-> "10"], 0, 1)>>)
       \/ BeginAgain("check", <<check(s, 0, 1)>>)
       \/ BeginAgain("selectBox", <<selectBox(s, [type |-> "string", text |-> "Germany"], 0)>>)

NextOpaque ==
    \/ CallOpaque
    \/ FillEntry(Main)
    \/ FillGetId(Main)
    \/ FillGetByCss(Main)
    \/ FillSetValue(Main)
    \/ CheckGetPropertyValue(Main)
    \/ CheckAfterClick(Main)
    \/ CheckCatch(Main)
    \/ SelectBoxEntry(Main)
    \/ SelectBoxAfterArrow(Main)
    \/ SelectBoxAfterScroll(Main)
    \/ SelectBoxAfterClick(Main)
    \/ ClickSelectArrowGetId(Main)
    \/ ClickSelectArrowGetByCss(Main)
    \/ ClickSelectArrowClick(Main)
    \/ ScrollGetDisplayed(Main)
    \/ ScrollIntoView(Main)
    \/ ClickGetDisplayed(Main)
    \/ ClickIsClickable(Main)
    \/ ClickPrim(Main)
    \/ Unwind(Main)

SpecOpaque == Init /\ [][NextOpaque]_vars

\* searchFor
CallSearch ==
    /\ FirstCall
    /\ \E s \in Selectors, v \in Values, to \in Timeouts, useEnter \in BOOLEAN :
          BeginRetry("searchFor", searchFor(s, v, 0, to, useEnter),
                     DefaultRetries, DefaultInterval)

NextSearch ==
    \/ CallSearch
    \/ SearchForAfterFill(Main)
    \/ SearchForPressEnter(Main)
    \/ SearchForGetId(Main)
    \/ SearchForGetByCss(Main)
    \/ SearchForClick(Main)
    \/ ClearAndFillAttemptVerify(Main)
    \/ ClearAndFillAttemptGetDisplayed(Main)
    \/ ClearAndFillAttemptGetValue(Main)
    \/ ClearAndFillAttemptGetInnerAttribute(Main)
    \/ ClearAndFillEntry(Main)
    \/ ClearAndFillFillActive(Main)
    \/ ClearHelperGetId(Main)
    \/ ClearHelperGetActiveElementOf(Main)
    \/ ClearHelperExecute(Main)
    \/ ClearHelperPressBackspace(Main)
    \/ SelectAllPressKey(Main)
    \/ ClickGetDisplayed(Main)
    \/ ClickIsClickable(Main)
    \/ ClickPrim(Main)
    \/ Unwind(Main)
    \/ RetryReturn(Main)
    \/ RetryCatch(Main)
    \/ RetrySleep(Main)
    \/ TailDone(Main)

SpecSearch == Init /\ [][NextSearch]_vars

\* selectBox
CallSelectBox ==
    \E s \in Selectors, v \in SelectValues, i \in Indexes :
       Begin("selectBox", <<selectBox(s, v, i)>>)

NextSelectBox ==
    \/ CallSelectBox
    \/ SelectBoxEntry(Main)
    \/ SelectBoxAfterArrow(Main)
    \/ SelectBoxAfterScroll(Main)
    \/ SelectBoxAfterClick(Main)
    \/ ClickSelectArrowGetId(Main)
    \/ ClickSelectArrowGetByCss(Main)
    \/ ClickSelectArrowClick(Main)
    \/ ScrollGetDisplayed(Main)
    \/ ScrollIntoView(Main)
    \/ ClickGetDisplayed(Main)
    \/ ClickIsClickable(Main)
    \/ ClickPrim(Main)
    \/ Unwind(Main)

SpecSelectBox == Init /\ [][NextSelectBox]_vars

\* selectMultiComboBox
CallSelectMultiComboBox ==
    \E s \in Selectors, vs \in ValueLists, i \in Indexes :
       Begin("selectMultiComboBox", <<selectMultiComboBox(s, vs, i)>>)

NextSelectMultiComboBox ==
    \/ CallSelectMultiComboBox
    \/ SelectMultiComboBoxEntry(Main)
    \/ SelectMultiComboBoxLoop(Main)
    \/ SelectMultiComboBoxAfterScroll(Main)
    \/ SelectMultiComboBoxPressEscape(Main)
    \/ ClickSelectArrowGetId(Main)
    \/ ClickSelectArrowGetByCss(Main)
    \/ ClickSelectArrowClick(Main)
    \/ ScrollGetDisplayed(Main)
    \/ ScrollIntoView(Main)
    \/ ClickGetDisplayed(Main)
    \/ ClickIsClickable(Main)
    \/ ClickPrim(Main)
    \/ Unwind(Main)

SpecSelectMultiComboBox == Init /\ [][NextSelectMultiComboBox]_vars

\* operations called with or without a timeout, under some environment
CallTimeout ==
    /\ FirstCall
    /\ \E s \in Selectors, env \in EnvValues, timeout \in TimeoutArguments :
          /\ \/ stack' = [stack EXCEPT ![Main] = <<focus(s, 0, TimeoutParameter(timeout, env))>>]
             \/ stack' = [stack EXCEPT ![Main] =
                             <<scrollToElement(s, 0, "center", TimeoutParameter(timeout, env))>>]
          /\ hist' = [NoHist EXCEPT !.op = Top(Main)'.fn, !.env = env, !.timeout = timeout]
    /\ exc' = [exc EXCEPT ![Main] = NoErr]
    /\ callNo' = [callNo EXCEPT ![Main] = @ + 1]
    /\ nCalls' = nCalls + 1
    /\ UNCHANGED ret

NextTimeout ==
    \/ CallTimeout
    \/ FocusGetDisplayed(Main)
    \/ FocusGetAttribute(Main)
    \/ FocusExecute(Main)
    \/ \E t \in {Main} \cup Floaters :
          \/ ScrollGetDisplayed(t)
          \/ ScrollIntoView(t)

SpecTimeout == Init /\ [][NextTimeout]_vars

\* selectBox and selectMultiComboBox
NextSelect == NextSelectBox \/ NextSelectMultiComboBox
SpecSelect == Init /\ [][NextSelect]_vars

\* check or uncheck, and the same again
CallCheckTwice ==
    \E s \in Selectors, i \in Indexes, to \in Timeouts :
       \/ BeginAgain("check", <<check(s, i, to)>>)
       \/ BeginAgain("uncheck", <<uncheck(s, i, to)>>)

NextCheckTwice ==
    \/ CallCheckTwice
    \/ CheckGetPropertyValue(Main)
    \/ CheckAfterClick(Main)
    \/ CheckCatch(Main)
    \/ ClickGetDisplayed(Main)
    \/ ClickIsClickable(Main)
    \/ ClickPrim(Main)

SpecCheckTwice == Init /\ [][NextCheckTwice]_vars

\* clearAndFill
CallClearAndFill ==
    \E s \in Selectors \cup {NoSel}, v \in Values, i \in Indexes, to \in Timeouts :
       Begin("clearAndFill", <<clearAndFill(s, v, i, to)>>)

NextClearAndFill ==
    \/ CallClearAndFill
    \/ ClearAndFillEntry(Main)
    \/ ClearAndFillFillActive(Main)
    \/ ClearHelperGetId(Main)
    \/ ClearHelperGetActiveElementOf(Main)
    \/ ClearHelperGetActiveElement(Main)
    \/ ClearHelperElemClick(Main)
    \/ ClearHelperGetAttribute(Main)
    \/ ClearHelperExecute(Main)
    \/ ClearHelperPressBackspace(Main)
    \/ SelectAllPressKey(Main)
    \/ ClickGetDisplayed(Main)
    \/ ClickIsClickable(Main)
    \/ ClickPrim(Main)
    \/ Unwind(Main)
    \/ TailDone(Main)

SpecClearAndFill == Init /\ [][NextClearAndFill]_vars

\* check and uncheck
CallCheck ==
    \E s \in Selectors, i \in Indexes, to \in Timeouts :
       \/ Begin("check", <<check(s, i, to)>>)
       \/ Begin("uncheck", <<uncheck(s, i, to)>>)

NextCheck ==
    \/ CallCheck
    \/ CheckGetPropertyValue(Main)
    \/ CheckAfterClick(Main)
    \/ CheckCatch(Main)
    \/ ClickGetDisplayed(Main)
    \/ ClickIsClickable(Main)
    \/ ClickPrim(Main)

SpecCheck == Init /\ [][NextCheck]_vars

\* clickTab and selectFromTab alone
NextTab ==
    \/ CallTab
    \/ \E t \in Tasks :
          \/ ClickGetDisplayed(t)
          \/ ClickIsClickable(t)
          \/ ClickPrim(t)
    \/ VerifyGetDisplayed(Main)
    \/ VerifyGetAttribute(Main)
    \/ VerifyGetProperty(Main)
    \/ VerifyGetDisplayedParent(Main)
    \/ VerifyGetAttributeParent(Main)
    \/ ClickTabVerify(Main)
    \/ ClickTabAfterVerify(Main)
    \/ SelectFromTabPoll(Main)
    \/ SelectFromTabAny(Main)
    \/ SelectFromTabAfterVerify(Main)
    \/ Unwind(Main)
    \/ RetryReturn(Main)
    \/ RetryCatch(Main)
    \/ RetrySleep(Main)
    \/ TailDone(Main)

SpecTab == Init /\ [][NextTab]_vars

\* clickAndRetry and fillAndRetry among plain calls, several calls in a session
CallFresh ==
    \E r \in Retries, iv \in Intervals, to \in Timeouts, s \in Selectors, i \in Indexes :
       \/ BeginRetry("clickAndRetry", clickAndRetry(s, i, to, r, iv), r, iv)
       \/ Begin("click", <<click(s, i, to)>>)
       \/ Begin("mouseOverElement", <<mouseOverElement(s, i, to)>>)
       \/ BeginRetry("clickSelectArrowAndRetry", clickSelectArrowAndRetry(s, i, r, iv), r, iv)

NextFresh ==
    \/ CallFresh
    \/ ClickGetDisplayed(Main)
    \/ ClickIsClickable(Main)
    \/ ClickPrim(Main)
    \/ ClickSelectArrowGetId(Main)
    \/ ClickSelectArrowGetByCss(Main)
    \/ ClickSelectArrowClick(Main)
    \/ MouseOverGetDisplayed(Main)
    \/ MouseOverMoveTo(Main)
    \/ RetryReturn(Main)
    \/ RetryCatch(Main)
    \/ RetrySleep(Main)
    \/ TailDone(Main)

SpecFresh == Init /\ [][NextFresh]_vars

CallSession ==
    \/ CallClick
    \/ \E s \in Selectors, i \in Indexes, to \in Timeouts :
          \/ Begin("focus", <<focus(s, i, to)>>)
          \/ Begin("scrollToElement", <<scrollToElement(s, i, "center", to)>>)

NextSession ==
    \/ CallSession
    \/ ClickGetDisplayed(Main)
    \/ ClickIsClickable(Main)
    \/ ClickPrim(Main)
    \/ FocusGetDisplayed(Main)
    \/ FocusGetAttribute(Main)
    \/ FocusExecute(Main)
    \/ \E t \in {Main} \cup Floaters :
          \/ ScrollGetDisplayed(t)
          \/ ScrollIntoView(t)

SpecSession == Init /\ [][NextSession]_vars

\* ==================================================================== claims
Frames(t) == {stack[t][i] : i \in 1 .. Len(stack[t])}
ClickFrames == UNION {{f \in Frames(t) : f.fn = "click"} : t \in Tasks}
ClickOps == {"click", "doubleClick", "rightClick"}
UnguardedOps == {"fill", "clickSelectArrow", "mouseOverElement"}
AllOps == ClickOps \cup UnguardedOps
Done(ops) == hist.op \in ops /\ ~Running(Main)
Failed == exc[Main] # NoErr

\* C1: in every call of click, doubleClick and rightClick the primitive is
\* invoked only once the wait-until of that call has observed an element that
\* was resolved as displayed and reported clickable, at most once per call, and
\* on the element the last wait-until poll observed.
C1_PrimitiveAfterWait ==
    \A f \in ClickFrames :
       /\ Len(f.acted) <= 1
       /\ (f.pc = "prim") = (Len(f.acted) = 1)
       /\ Len(f.acted) = 1 =>
             /\ f.seen # NoElem
             /\ f.acted[1] = f.seen
             /\ f.acted[1] = f.elem

\* a primitive is in flight after an earlier poll of the same call had failed
C1_Witness ==
    \E f \in ClickFrames : f.pc = "prim" /\ f.polls >= 1 /\ Len(f.acted) = 1

\* C2: if the element never becomes displayed and clickable within the timeout,
\* click / doubleClick / rightClick fails with the timeout failure of wait-until
\* and no click primitive is invoked in that call.
C2_TimeoutNoPrimitive ==
    Done(ClickOps) /\ ~hist.ready =>
        /\ Failed
        /\ exc[Main].kind = "timeout"
        /\ hist.prims = 0

C2_Witness ==
    Done(ClickOps) /\ ~hist.ready /\ exc[Main].kind = "timeout"

\* C3: if the final primitive of click / doubleClick / rightClick raises an
\* error, the error goes through ErrorHandler.logException and is re-raised:
\* the call fails.
C3_PrimitiveErrorLoggedAndRaised ==
    Done(ClickOps) /\ hist.primFailed =>
        /\ Failed
        /\ exc[Main].kind = "primitive"
        /\ exc[Main].logged >= 1
        /\ hist.logs >= 1

C3_Witness ==
    Done({"rightClick"}) /\ hist.primFailed /\ Failed

\* C4 as stated: no error of a primitive action (setValue in fill, arrow.click
\* in clickSelectArrow, moveTo in mouseOverElement) reaches the caller of a
\* public operation without having gone through ErrorHandler.logException.
C4_NoPrimitiveErrorUnlogged ==
    Done(AllOps) /\ Failed /\ exc[Main].kind = "primitive" => exc[Main].logged >= 1

\* C5: every call of a retry wrapper attempts the operation at least once,
\* attempts it again only after a failed attempt and never after a successful
\* one, and makes at most `retries` re-attempts (3 for clickTab and
\* selectFromTab).
C5_RetryDiscipline ==
    hist.op \in RetryWrappers =>
        /\ hist.attempts >= 1
        /\ hist.attempts <= hist.fails + 1
        /\ ~hist.afterOk
        /\ hist.lastOk => hist.attempts = hist.fails + 1 /\ stack[Main] \in {<<>>, <<Awaiter(hist.op)>>}
        /\ hist.attempts - 1 <= hist.retries
        /\ hist.op \in {"clickTab", "selectFromTab"} => hist.retries = 3

\* clickTab has used all three re-attempts and failed
C5_Witness ==
    Done({"clickTab"}) /\ hist.attempts = 4 /\ hist.fails = 4 /\ Failed

\* C6: when every attempt of a retry wrapper fails, the wrapper call fails with
\* the error of the last attempt; no wrapper swallows it.
C6_LastErrorRaised ==
    Done(RetryWrappers) /\ hist.fails = hist.attempts =>
        /\ Failed
        /\ exc[Main] = hist.lastErr
        /\ exc[Main].born = callNo[Main]

C6_Witness ==
    /\ Done({"clearAndFillSmartFieldInputAndRetry"})
    /\ hist.attempts >= 2
    /\ hist.fails = hist.attempts
    /\ Failed

\* C7: between two consecutive attempts the wrapper waits the configured
\* interval, the same before every re-attempt, and a failure of any kind is
\* followed by a re-attempt while retries are left.
C7_FixedInterval ==
    hist.op \in RetryWrappers =>
        /\ hist.nWaits = hist.attempts - 1
        /\ hist.waits \subseteq {hist.interval}
        /\ hist.op \in {"clickTab", "selectFromTab"} => hist.interval = 5000
        /\ Done(RetryWrappers) /\ Failed => hist.attempts = hist.retries + 1

\* a re-attempt that follows a failed verification of the filled value
C7_Witness ==
    /\ hist.op = "clearAndFillAndRetry"
    /\ Running(Main)
    /\ hist.attempts = 2
    /\ hist.lastErr.kind = "mismatch"
    /\ hist.waits = {hist.interval}

\* the handles a frame holds or has acted on
Held(f) ==
    (IF "elem" \in DOMAIN f THEN {f.elem} ELSE {})
    \cup (IF "acted" \in DOMAIN f THEN {f.acted[i] : i \in 1 .. Len(f.acted)} ELSE {})
    \cup (IF "tabElem" \in DOMAIN f THEN {f.tabElem, f.tabParentElem} ELSE {})

\* C8: every call, and every attempt of a retried operation, acts on a handle
\* that was resolved inside that call or attempt; no handle of an earlier call
\* or attempt is acted on later.
C8_FreshHandle ==
    \A t \in Tasks : \A f \in Frames(t) : \A h \in Held(f) :
       h # NoElem => h.born = callNo[t]

\* the primitive of a later call or attempt is in flight
C8_Witness ==
    \E f \in Frames(Main) :
       /\ f.fn = "click" /\ f.pc = "prim"
       /\ callNo[Main] >= 2
       /\ hist.op = "clickAndRetry"
       /\ hist.attempts >= 2
       /\ f.acted[1].born = callNo[Main]

\* The awaits that are no driver round trip: a callee, a timer, Promise.any.
InternalPcs == {"entry", "attempt", "sleep", "await", "afterClick", "afterVerify",
                "afterClearAndFill", "poll", "any"}
InFlight(t) == Running(t) /\ exc[t] = NoErr /\ Top(t).pc \notin InternalPcs

\* C9: at every moment at most one operation of the layer is in flight against
\* the driver session.
C9_AtMostOneInFlight ==
    Cardinality({t \in Tasks : InFlight(t)}) <= 1

\* C10: every call of a retry wrapper terminates, returning after a successful
\* attempt or failing after the last permitted one.
C10_RetryTerminates ==
    (hist.op \in RetryWrappers /\ Running(Main)) ~> Done(RetryWrappers)

C10_Witness ==
    Done({"selectFromTab"}) /\ hist.attempts = 4 /\ Failed

\* C11: clickTab and selectFromTab complete successfully only if the tab
\* switch was verified in the attempt in which the click succeeded; an attempt
\* whose verification returns false is a failed attempt and is retried.
TabOps == {"clickTab", "selectFromTab"}

C11_SuccessOnlyVerified ==
    /\ Done(TabOps) /\ ~Failed => hist.lastOk
    /\ hist.op \in TabOps /\ hist.lastOk => hist.clicked /\ hist.verified = "true"
    /\ hist.op \in TabOps /\ hist.verified # "none" => hist.clicked
    /\ Done(TabOps) /\ hist.verified = "false" =>
          /\ Failed
          /\ exc[Main].kind = "verify"
          /\ hist.attempts = TabRetries + 1
    /\ hist.op \in TabOps /\ Caught(Main, "retry") /\ hist.verified = "false" =>
          exc[Main].kind = "verify"

\* a second attempt succeeds after the verification of the first returned false
C11_Witness ==
    /\ Done({"selectFromTab"}) /\ ~Failed
    /\ hist.attempts = 2
    /\ hist.lastErr.kind = "verify"
    /\ hist.verified = "true"

\* C12: check clicks the element if and only if its 'selected' property was
\* read as false, uncheck if and only if it was read as true; at most one
\* click per call, and the property is read before any click.
CheckOps == {"check", "uncheck"}
ReadToClick == [check |-> "false", uncheck |-> "true"]

C12_ClickIffRead ==
    hist.op \in CheckOps =>
        LET tr == hist.trace IN
        /\ Len(tr) <= 2
        /\ hist.prims <= 1
        /\ Len(tr) >= 1 => tr[1].ev = "getPropertyValue"
        /\ Len(tr) >= 1 => (Len(tr) = 2) = (tr[1].ans = ReadToClick[hist.op])
        /\ Len(tr) = 2 => tr[2].ev = "click" /\ tr[2].sel = tr[1].sel
        /\ hist.prims = 1 => Len(tr) = 2

\* uncheck has read true and its click has invoked the primitive
C12_Witness ==
    /\ hist.op = "uncheck"
    /\ Len(hist.trace) = 2
    /\ hist.trace[1].ans = "true"
    /\ hist.prims = 1
    /\ ~Running(Main) /\ ~Failed

\* the events `ev` of the running (or last) call, in order
Events(ev) == SelectSeq(hist.trace, LAMBDA e : e.ev = ev)

\* C13: fill sets the value exactly once when the value is a string or a
\* number, on the inner textarea of the resolved element when the selector's
\* metadata is sap.m.TextArea and on its inner input otherwise; for any other
\* value type it resolves no element, performs no setValue and reports the
\* error through ErrorHandler.logException.
C13_FillSetsOnce ==
    hist.op = "fill" /\ hist.trace # <<>> =>
        LET tr == hist.trace
            tag == IF tr[1].sel.metadata = "sap.m.TextArea" THEN "textarea" ELSE "input"
        IN
        /\ tr[1].ev = "typeof"
        /\ Len(Events("setValue")) <= 1
        /\ tr[1].ans \in {"string", "number"} /\ ~Running(Main) /\ ~Failed =>
              /\ Len(tr) = 4
              /\ tr[2].ev = "getId" /\ tr[2].sel = tr[1].sel
              /\ tr[3] = Event("getByCss", tr[1].sel, "[id='" \o tr[2].ans \o "'] " \o tag, "ok")
              /\ tr[4].ev = "setValue"
              /\ tr[4].sel = [tr[1].sel EXCEPT !.role = tag]
        /\ Len(tr) = 4 => tr[4].ev = "setValue" /\ tr[4].sel.role = tag
        /\ tr[1].ans \notin {"string", "number"} =>
              /\ Len(tr) = 1
              /\ ~Running(Main)
              /\ Failed
              /\ exc[Main].kind = "value"
              /\ exc[Main].logged >= 1
              /\ hist.logs = 1

\* a number was set on the textarea of a sap.m.TextArea
C13_Witness ==
    /\ Done({"fill"}) /\ ~Failed
    /\ Len(hist.trace) = 4
    /\ hist.trace[1].ans = "number"
    /\ hist.trace[4].sel.role = "textarea"

\* What the layer asked of the driver, and the exchange with its answer.
Request(e) == <<e.ev, e.arg>>
Exchange(e) == <<e.ev, e.arg, e.ans>>
Shorter(a, b) == IF Len(a) <= Len(b) THEN Len(a) ELSE Len(b)

\* Two calls of one operation: as long as the driver has answered both alike,
\* the layer asks both the same next thing.
SameActions(a, b) ==
    \A k \in 1 .. Shorter(a, b) :
       (\A i \in 1 .. k - 1 : Exchange(a[i]) = Exchange(b[i])) => Request(a[k]) = Request(b[k])

IsTextArea(selector) == selector.metadata = "sap.m.TextArea"

\* C14 as stated: the driver actions of an operation do not depend on the
\* contents of the selector, only on what the resolution returns for it; two
\* calls of the same operation with different selectors that resolve to the
\* same element perform the same driver actions.
C14_SelectorOpaque ==
    hist.prevOp = hist.op => SameActions(hist.prev, hist.trace)

\* C14 amended: that holds except for fill's test of the selector's metadata
\* against sap.m.TextArea: two calls of fill whose selectors agree on it, and
\* two calls of any other operation, perform the same driver actions.
C14_OpaqueButTextArea ==
    /\ hist.prevOp = hist.op /\ hist.op # "fill" => SameActions(hist.prev, hist.trace)
    /\ hist.prevOp = hist.op /\ hist.op = "fill" /\ hist.prev # <<>> /\ hist.trace # <<>>
       /\ IsTextArea(hist.prev[1].sel) = IsTextArea(hist.trace[1].sel)
          => SameActions(hist.prev, hist.trace)

\* two completed calls of fill with different selectors that resolved to the
\* same element
C14_Witness ==
    /\ Done({"fill"}) /\ ~Failed /\ hist.prevOp = "fill"
    /\ Len(hist.prev) = 4 /\ Len(hist.trace) = 4
    /\ hist.prev[1].sel # hist.trace[1].sel
    /\ hist.prev[2].ans = hist.trace[2].ans
    /\ hist.prev[4].ans = "ok"

\* the positions of the events `ev` in the trace
At_(ev) == {i \in 1 .. Len(hist.trace) : hist.trace[i].ev = ev}

\* C15: clearAndFill clears the field and then fills the active element only
\* when the value is a string or a number, fillActive only after clear has
\* completed successfully; for any other value it performs neither clear nor
\* fillActive and reports the error through ErrorHandler.logException.
C15_ClearAndFillStringOrNumber ==
    hist.op = "clearAndFill" /\ hist.trace # <<>> =>
        LET tr == hist.trace IN
        /\ tr[1].ev = "typeof"
        /\ \A k \in At_("fillActive") :
              \E j \in 1 .. k - 1 : tr[j] = Event("return", NoSel, "clear", "ok")
        /\ At_("clear") # {} \/ At_("fillActive") # {} => tr[1].ans \in {"string", "number"}
        /\ tr[1].ans \notin {"string", "number"} =>
              /\ ~Running(Main)
              /\ Failed
              /\ exc[Main].kind = "value"
              /\ exc[Main].logged >= 1

\* the value the running attempt was called with, as clearAndFill saw it
Expected == [type |-> hist.trace[1].ans,
             text |-> Events("fillActive")[1].arg]
\* the last value the running attempt read back
ReadBack ==
    IF Events("getInnerAttribute") # <<>> THEN Events("getInnerAttribute")[1].ans
    ELSE Events("getValue")[1].ans
AttemptFailedWith(kind) ==
    \/ exc[Main].kind = kind
    \/ hist.lastErr.kind = kind /\ hist.fails = hist.attempts

\* C16: with verify=true clearAndFillAndRetry completes successfully only if
\* in its final attempt, after clearAndFill, the value read back (getValue, or
\* failing that the data-value attribute) equals the expected value under
\* loose comparison; an attempt whose read-back differs fails and is retried.
\* With verify=false nothing is read back and an attempt succeeds exactly when
\* clearAndFill succeeds.
C16_VerifiedReadback ==
    hist.op = "clearAndFillAndRetry" =>
        LET tr == hist.trace
            reads == At_("getValue") \cup At_("getInnerAttribute") \cup At_("getDisplayed")
        IN
        /\ hist.lastOk =>
              /\ Events("fillActive") # <<>> /\ Events("fillActive")[1].ans = "ok"
              /\ Len(Events("verify")) = 1
        /\ \A v \in At_("verify") :
              /\ \E k \in 1 .. v - 1 : tr[k].ev = "fillActive" /\ tr[k].ans = "ok"
              /\ \A r \in reads : r > v /\ tr[v].ans = "true"
              /\ tr[v].ans = "false" => exc[Main] = NoErr /\ (Running(Main) \/ hist.lastOk)
              /\ tr[v].ans = "true" /\ hist.lastOk =>
                    /\ Events("getValue") # <<>>
                    /\ LooseEq(ReadBack, Expected)
        /\ reads # {} => At_("verify") # {}
        /\ \A r \in At_("getInnerAttribute") :
              ~LooseEq(tr[r].ans, Expected) =>
                 /\ ~hist.lastOk
                 /\ AttemptFailedWith("mismatch")
                 /\ ~Running(Main) => Failed /\ hist.attempts = hist.retries + 1

\* the first attempt read back something else, the second "10.00" for the number 10
C16_Witness ==
    /\ Done({"clearAndFillAndRetry"}) /\ ~Failed
    /\ hist.attempts = 2
    /\ hist.lastErr.kind = "mismatch"
    /\ Events("verify")[1].ans = "true"
    /\ Expected.type = "number"
    /\ ReadBack = "10.00"

\* the events that trigger the search
Triggers == At_("pressEnter") \cup At_("searchClick")
Filled == Event("return", NoSel, "clearAndFillAndRetry", "ok")

\* C17: searchFor triggers the search exactly once and only after
\* clearAndFillAndRetry has completed successfully (field cleared, filled and
\* verified): by pressing Enter when useEnter is true, otherwise by clicking
\* the '-search' button of the element; if filling fails after all retries no
\* search is triggered.
C17_SearchOnceAfterFill ==
    hist.op = "searchFor" =>
        LET tr == hist.trace IN
        /\ Cardinality(Triggers) <= 1
        /\ ~Running(Main) /\ ~Failed => Cardinality(Triggers) = 1
        /\ \A k \in Triggers \cup At_("useEnter") :
              /\ \E j \in 1 .. k - 1 : tr[j] = Filled
              /\ hist.lastOk
              /\ Events("return")[1] = Event("return", NoSel, "clear", "ok")
              /\ Events("fillActive")[1].ans = "ok"
              /\ Events("verify")[1].ans = "true"
              /\ LooseEq(ReadBack, Expected)
        /\ \A k \in At_("pressEnter") : Events("useEnter")[1].ans = "true"
        /\ \A k \in At_("searchClick") :
              /\ Events("useEnter")[1].ans = "false"
              /\ tr[k - 2].ev = "getId" /\ tr[k - 2].sel = Events("useEnter")[1].sel
              /\ tr[k - 1] = Event("getByCss", tr[k].sel, "[id='" \o tr[k - 2].ans \o "-search']", "ok")
              /\ tr[k].arg = tr[k - 1].arg
        /\ ~hist.lastOk /\ hist.fails = hist.attempts => Triggers = {}
        /\ ~Running(Main) /\ ~hist.lastOk =>
              Failed /\ Triggers = {} /\ hist.attempts = DefaultRetries + 1

\* the search button was clicked after a fill that succeeded at the second attempt
C17_Witness ==
    /\ Done({"searchFor"}) /\ ~Failed
    /\ hist.attempts = 2
    /\ At_("searchClick") # {}

\* the calls of other operations of the layer the running call has made
LayerCalls == SelectSeq(hist.trace, LAMBDA e : e.ev \in {"clickSelectArrow", "scrollToElement", "click"})
IsPrefix(a, b) == Len(a) <= Len(b) /\ a = SubSeq(b, 1, Len(a))

\* C19: selectBox with a value that is neither undefined nor null performs, in
\* this order, one click on the select arrow, one scroll to the item whose
\* text is the value and whose ancestor is the selector's elementProperties,
\* and one click on that item; with an undefined or null value it reports the
\* error 'Please provide a value as second argument.' through logException
\* and clicks no item.
C19_SelectBoxArrowScrollClick ==
    hist.op = "selectBox" /\ hist.trace # <<>> =>
        LET arrow == hist.trace[1]
            selector == arrow.sel
            tested == Events("value")
            item(text) == [elementProperties |->
                              [mProperties |-> {<<"text", text>>},
                               ancestorProperties |-> [metadata |-> selector.metadata]]]
            given(v) == ~(v.ans = "undefined" \/ (v.ans = "object" /\ v.arg = "null"))
        IN
        /\ arrow = Event("clickSelectArrow", selector, "", "")
        /\ Len(tested) <= 1
        /\ tested = <<>> => LayerCalls = <<arrow>>
        /\ \A k \in 1 .. Len(tested) :
              IF given(tested[k])
              THEN /\ IsPrefix(LayerCalls,
                               <<arrow, Event("scrollToElement", item(tested[k].arg), "", ""),
                                 Event("click", item(tested[k].arg), "", "")>>)
                   /\ Len(LayerCalls) >= 2
                   /\ ~Running(Main) /\ ~Failed => Len(LayerCalls) = 3
              ELSE /\ LayerCalls = <<arrow>>
                   /\ hist.logs = 1
                   /\ ~Running(Main)
                   /\ exc[Main] = [kind |-> "Please provide a value as second argument.",
                                   logged |-> 1, born |-> callNo[Main]]
        /\ ~Running(Main) /\ ~Failed => Len(tested) = 1

\* a selectBox that clicked the arrow, scrolled to the item and clicked it
C19_Witness ==
    /\ Done({"selectBox"}) /\ ~Failed
    /\ Len(LayerCalls) = 3
    /\ hist.prims = 1

\* the checkbox of the list item titled `title`
CheckBoxOf(title) ==
    [elementProperties |-> [metadata |-> "sap.m.CheckBox", mProperties |-> {}],
     parentProperties |-> [metadata |-> "sap.m.StandardListItem",
                           mProperties |-> {<<"title", title>>}]]

\* C18: selectMultiComboBox clicks the select arrow exactly once before any
\* item, then for each value in the order given scrolls to and clicks that
\* value's checkbox (scroll before click, one click per value), and presses
\* Escape exactly once after the last item has been clicked.
C18_ArrowItemsEscape ==
    hist.op = "selectMultiComboBox" /\ hist.trace # <<>> =>
        LET tr == hist.trace
            values == hist.values
            n == Len(values)
            arrow == tr[1]
            expected == [k \in 1 .. 2 * n + 1 |->
                            IF k = 1 THEN arrow
                            ELSE IF k % 2 = 0
                                 THEN Event("scrollToElement", CheckBoxOf(values[k \div 2]), "", "")
                                 ELSE Event("click", CheckBoxOf(values[(k - 1) \div 2]), "", "")]
            escapes == At_("pressEscape")
        IN
        /\ arrow.ev = "clickSelectArrow"
        /\ IsPrefix(LayerCalls, expected)
        /\ Cardinality(escapes) <= 1
        /\ \A k \in escapes :
              /\ k = Len(tr)
              /\ LayerCalls = expected
              /\ hist.prims = n
              /\ ~hist.primFailed
        /\ ~Running(Main) /\ ~Failed =>
              /\ escapes # {}
              /\ tr[Len(tr)].ans = "ok"
              /\ Len(SelectSeq(tr, LAMBDA e : e.ev = "click")) = n

\* two different items were scrolled to and clicked, then Escape was pressed
C18_Witness ==
    /\ Done({"selectMultiComboBox"}) /\ ~Failed
    /\ Len(hist.values) = 2
    /\ hist.values[1] # hist.values[2]
    /\ At_("pressEscape") # {}

\* the frames of the operations that were given, or defaulted, a timeout
TimeoutOps == {"focus", "scrollToElement"}
TimeoutFrames == UNION {{f \in Frames(t) : f.fn \in TimeoutOps} : t \in Tasks}

RECURSIVE Pow10(_)
Pow10(n) == IF n = 0 THEN 1 ELSE 10 * Pow10(n - 1)

\* p is a decimal numeral: an optional sign, digits, and optionally a point
\* and digits, with at least one digit
IsNumeral(p) ==
    \E a \in 0 .. 1, b \in 0 .. Len(p) :
       /\ a <= b
       /\ a = 1 => p[1] \in {"-", "+"}
       /\ \A k \in a + 1 .. b : IsDigit(p[k])
       /\ \/ b = Len(p)
          \/ p[b + 1] = "." /\ \A k \in b + 2 .. Len(p) : IsDigit(p[k])
       /\ \E k \in 1 .. Len(p) : IsDigit(p[k])

\* the number a decimal numeral denotes
NumeralValue(p) ==
    LET D == {k \in 1 .. Len(p) : IsDigit(p[k])}
        after(k) == Cardinality({j \in D : j > k})
        point == {k \in 1 .. Len(p) : p[k] = "."}
        weight(k) == DigitValue(p[k]) * Pow10(after(k))
        sum[S \in SUBSET D] ==
            IF S = {} THEN 0
            ELSE LET k == CHOOSE x \in S : TRUE IN weight(k) + sum[S \ {k}]
    IN  [type |-> "number", nan |-> FALSE, neg |-> p[1] = "-",
         mant |-> sum[D],
         scale |-> Cardinality({j \in D : \E k \in point : j > k})]

SameNumber(x, y) ==
    /\ x.type = "number" /\ ~x.nan /\ ~y.nan
    /\ x.neg = y.neg
    /\ x.mant * Pow10(y.scale) = y.mant * Pow10(x.scale)

GlobalDefault ==
    [type |-> "number", nan |-> FALSE, neg |-> FALSE, mant |-> GLOBAL_DEFAULT_WAIT_TIMEOUT,
     scale |-> 0]

\* C20 (as stated): when the caller omits the timeout, the timeout used is the
\* numeric value of QMATE_CUSTOM_TIMEOUT whenever the variable is set to a
\* number, and GLOBAL_DEFAULT_WAIT_TIMEOUT otherwise; an explicit timeout is
\* used instead of both.
C20_EnvNumberElseGlobal ==
    hist.op \in TimeoutOps =>
        \A f \in TimeoutFrames :
           IF hist.timeout.type = "undefined"
           THEN IF hist.env.set /\ IsNumeral(hist.env.text)
                THEN SameNumber(f.timeout, NumeralValue(hist.env.text))
                ELSE f.timeout = GlobalDefault
           ELSE f.timeout = hist.timeout

\* C20 (amended): when the caller omits the timeout, the timeout used is the
\* number denoted by the longest decimal numeral the value of
\* QMATE_CUSTOM_TIMEOUT starts with (leading white space skipped, what follows
\* the numeral ignored) whenever there is such a numeral and it is not zero,
\* and GLOBAL_DEFAULT_WAIT_TIMEOUT otherwise (variable unset, no leading
\* numeral, or zero); an explicit timeout is used instead of both.
C20_EnvPrefixNonZeroElseGlobal ==
    hist.op \in TimeoutOps =>
        LET text == hist.env.text
            blanks == CHOOSE k \in 0 .. Len(text) :
                         /\ \A j \in 1 .. k : text[j] = " "
                         /\ k = Len(text) \/ text[k + 1] # " "
            rest == SubSeq(text, blanks + 1, Len(text))
            numerals == {n \in 1 .. Len(rest) : IsNumeral(SubSeq(rest, 1, n))}
            longest == SubSeq(rest, 1, CHOOSE n \in numerals : \A m \in numerals : m <= n)
        IN
        \A f \in TimeoutFrames :
           IF hist.timeout.type = "undefined"
           THEN IF ~hist.env.set \/ numerals = {} \/ NumeralValue(longest).mant = 0
                THEN f.timeout = GlobalDefault
                ELSE SameNumber(f.timeout, NumeralValue(longest))
           ELSE f.timeout = hist.timeout

\* focus was called without a timeout while QMATE_CUSTOM_TIMEOUT was "7.s",
\* and the scrollToElement it started runs with the timeout 7
C20_Witness ==
    /\ hist.op = "focus"
    /\ hist.timeout.type = "undefined"
    /\ hist.env = [set |-> TRUE, text |-> <<"7", ".", "s">>]
    /\ \E fl \in Floaters :
          /\ Running(fl)
          /\ Top(fl).fn = "scrollToElement"
          /\ Top(fl).timeout.mant = 7 /\ Top(fl).timeout.scale = 0

\* the scrollToElement the running (or last) call of focus started
ScrollsOfFocus == {fl \in Floaters : callNo[fl] = callNo[Main] /\ callNo[fl] > 0}

\* C21: Control.focus uses scrollToElement if and only if in-browser focusing
\* was not possible, and then the element has been scrolled into view by the
\* time focus returns: focus completes only after the scroll has completed,
\* and a failure of scrollToElement makes focus fail.
C21_FocusAwaitsScroll ==
    hist.op = "focus" /\ ~Running(Main) =>
        \A fl \in ScrollsOfFocus :
           /\ ~Running(fl)
           /\ exc[fl] # NoErr => Failed

\* a menu-item click of the running attempt has invoked its click primitive
AtPrimitive(c) == Running(c) /\ exc[c] = NoErr /\ Top(c).fn = "click" /\ Top(c).pc = "prim"
\* the polling has reported success and _verifyTabSwitch has been called
Verifying == \E f \in Frames(Main) : f.fn = "selectFromTabAttempt" /\ f.pc = "afterVerify"

\* C23: in one attempt of selectFromTab the menu item is clicked at most once:
\* the two menu-item clicks started together in a polling iteration never both
\* perform a click primitive, and no menu-item click performs its click
\* primitive after the polling has reported success and the verification of
\* the tab switch has begun.
C23_MenuItemClickedOnce ==
    hist.op = "selectFromTab" =>
        /\ ~(\A c \in Children : AtPrimitive(c))
        /\ Verifying => \A c \in Children : ~AtPrimitive(c)

\* C24: an error raised inside one call of a public operation is passed to
\* ErrorHandler.logException exactly once before that call fails, also when
\* the operation is built on another operation that already forwards its
\* errors (check and uncheck calling click).
C24_LoggedExactlyOnce ==
    Done(CheckOps) /\ Failed => exc[Main].logged = 1 /\ hist.logs = 1

\* the attempts of clickTab / selectFromTab on the stack of the test script
TabAttempts == {f \in Frames(Main) : f.fn \in {"clickTabAttempt", "selectFromTabAttempt"}}
\* the calls of _verifyTabSwitch that have resolved the tab element
TabVerifications == {f \in Frames(Main) : f.fn = "verifyTabSwitch" /\ f.tabElem # NoElem}

\* C25: every element resolution performed within one call of clickTab or
\* selectFromTab targets the element identified by the caller's (selector,
\* index): the tab whose switch is verified is the tab that was clicked, for
\* every index including index > 0.
C25_VerifiedTabIsClickedTab ==
    hist.op \in TabOps =>
        \A a \in TabAttempts, v \in TabVerifications :
           v.tabElem.sel = a.sel /\ v.tabElem.index = a.index

\* C26: a selection operation that fails leaves the UI as it found it:
\* selectBox called with an undefined or null value performs no driver action
\* at all (it does not click the select arrow) before reporting the error, and
\* selectMultiComboBox presses Escape also when selecting one of the values
\* fails.
C26_FailedSelectionRestoresUi ==
    /\ Done({"selectBox"}) /\ exc[Main].kind = "Please provide a value as second argument."
          => LayerCalls = <<>>
    /\ Done({"selectMultiComboBox"}) /\ Failed /\ Len(LayerCalls) >= 2
          => At_("pressEscape") # {}

\* What a call of check / uncheck read as 'selected', whether it clicked, and
\* the 'selected' property it leaves behind when a click toggles the property.
ReadSelected(tr) == tr[1].ans = "true"
Clicked(tr) == \E k \in 1 .. Len(tr) : tr[k].ev = "click"
SelectedAfter(tr) == IF Clicked(tr) THEN ~ReadSelected(tr) ELSE ReadSelected(tr)
\* the second call works on the checkbox the first one left: same selector,
\* and it reads what a toggling click has left
SecondOfTwo ==
    /\ hist.op \in CheckOps /\ hist.prevOp = hist.op /\ hist.prevOk
    /\ hist.prev # <<>> /\ hist.trace # <<>>
    /\ hist.trace[1].sel = hist.prev[1].sel
    /\ hist.trace[1].ans = BoolText(SelectedAfter(hist.prev))

\* C27: assuming a click toggles the checkbox's 'selected' property, after a
\* successful check the checkbox is selected whatever its initial state, and a
\* second check immediately after performs no click; dually, after a
\* successful uncheck it is unselected and a second uncheck performs no click.
C27_CheckIdempotent ==
    /\ Done(CheckOps) /\ ~Failed =>
          /\ SelectedAfter(hist.trace) = (hist.op = "check")
          /\ Clicked(hist.trace) => hist.prims = 1 /\ ~hist.primFailed
    /\ SecondOfTwo =>
          /\ SelectedAfter(hist.prev) = (hist.op = "check")
          /\ ~Clicked(hist.trace)
          /\ hist.prims = 0

\* a check that found the box unselected and clicked it, and a second check
\* that has read it selected and has returned
C27_Witness ==
    /\ SecondOfTwo /\ hist.op = "check"
    /\ ~ReadSelected(hist.prev) /\ Clicked(hist.prev)
    /\ ~Running(Main) /\ ~Failed

=============================================================================
